---- MODULE Spec2Model ----
(***************************************************************************)
(* Verification model of the CryptoTrade backend: the wallet ledger of     *)
(* backend/db_storage.py, the wallet route of backend/main.py and the      *)
(* pro-rata distribution of backend/matching_engine.py.                    *)
(*                                                                         *)
(* Amounts are integers: one unit is 0.00000001 (the 8 fractional digits   *)
(* of the Decimal amounts).                                                *)
(***************************************************************************)
EXTENDS Integers, Sequences, FiniteSets, TLC

\* ------------------------------------------------------------------ bounds
MaxBal == 2
MaxAmt == 2
MaxResting == 4     \* resting orders at one price level
MaxSize == 3        \* unfilled size of a resting order, in units
MaxIncoming == 6    \* remaining amount of the incoming order, in units
MaxPrice == 3       \* prices of orders
MaxOrderAmt == 2    \* amount of an order, in units
MaxBook == 2        \* orders in the book before the request
MaxOffers == 2      \* offers created
MaxRate == 2        \* exchange rate of an offer
MaxOfferAmt == 1    \* amount of an offer

Balances == 0..MaxBal
Amounts == 0..MaxAmt
PosAmounts == 1..MaxAmt

\* ------------------------------------------------------------------- state
VARIABLES
  wallets,   \* the committed rows of table wallets: id -> [balance, reserved_balance]
  last,      \* the last ledger call that returned: operation, arguments, result, rows before it
  tx,        \* per request: the ledger call it runs and its open transaction
  log,       \* the calls whose transaction committed, in commit order, with their results
  level,     \* one price level of match_order: its resting orders, the incoming remainder, the fills
  orders,    \* table orders: the rows in creation order (the id of a row is its index)
  trades,    \* table trades: the rows in creation order
  match,     \* per order request (POST /api/orders): its position in match_order and its locals
  offers,    \* table trade_offers: the rows in creation order (the id of a row is its index)
  acceptances, \* table offer_acceptances: the rows (offer_id, buyer_id) in creation order
  stats,     \* users.completed_trades of each user
  accept,    \* per accept request (POST /api/trades): its position in create_trade and its locals
  opening    \* per wallet request (POST /api/wallets): its position in create_wallet and its locals

ledgerVars == <<wallets, last>>
concVars == <<tx, log>>
matchVars == <<level>>
bookVars == <<orders, trades, match>>
offerVars == <<offers, acceptances, stats, accept, opening>>
vars == <<wallets, last, tx, log, level, orders, trades, match, offers, acceptances, stats, accept, opening>>

Missing == "w0"                      \* an id no row of wallets has
PairIds == {"w1", "w2"}
QuadIds == {"w1", "w2", "w3", "w4"}
WalletArgs == DOMAIN wallets \cup {Missing}

Row(b, r) == [balance |-> b, reserved_balance |-> r]
NoCall == [op |-> "none"]
NoLevel == [pc |-> "none"]

\* ------------------------------------------------------- the store's writes
\* One UPDATE wallets SET <columns> WHERE id = <id> statement.
Update(id, cols) == [id |-> id, set |-> cols]

ApplyWrite(ws, wr) ==
  IF wr.id \in DOMAIN ws
  THEN [ws EXCEPT ![wr.id] =
          [c \in DOMAIN @ |-> IF c \in DOMAIN wr.set THEN wr.set[c] ELSE @[c]]]
  ELSE ws

RECURSIVE ApplyWrites(_, _)
ApplyWrites(ws, writes) ==
  IF writes = <<>> THEN ws
  ELSE ApplyWrites(ApplyWrite(ws, Head(writes)), Tail(writes))

\* What a ledger primitive returns, with the UPDATE statements it issued.
Refused == [ok |-> FALSE, writes |-> <<>>]
Done(writes) == [ok |-> TRUE, writes |-> writes]

\* ------------------------------------------------------ ledger primitives
\* Each takes the rows its SELECT ... FOR UPDATE statements found (a missing id
\* finds no row) and returns the result and the UPDATEs, in the code's order.

reserve_no_check(ws, wallet_id, amount) ==
  IF wallet_id \notin DOMAIN ws THEN Refused
  ELSE Done(<<Update(wallet_id,
                [reserved_balance |-> ws[wallet_id].reserved_balance + amount])>>)

reserve_wallet_funds(ws, wallet_id, amount) ==
  IF wallet_id \notin DOMAIN ws THEN Refused
  ELSE LET wallet == ws[wallet_id]
           available == wallet.balance - wallet.reserved_balance
       IN IF available < amount THEN Refused
          ELSE Done(<<Update(wallet_id,
                        [reserved_balance |-> wallet.reserved_balance + amount])>>)

release_clamped(ws, wallet_id, amount) ==
  IF wallet_id \notin DOMAIN ws THEN Refused
  ELSE LET wallet == ws[wallet_id]
       IN IF wallet.reserved_balance < amount
          THEN Done(<<Update(wallet_id, [reserved_balance |-> 0])>>)
          ELSE Done(<<Update(wallet_id,
                        [reserved_balance |-> wallet.reserved_balance - amount])>>)

release_wallet_funds(ws, wallet_id, amount) ==
  IF wallet_id \notin DOMAIN ws THEN Refused
  ELSE LET wallet == ws[wallet_id]
       IN IF wallet.reserved_balance < amount THEN Refused
          ELSE Done(<<Update(wallet_id,
                        [reserved_balance |-> wallet.reserved_balance - amount])>>)

transfer_write_first(ws, from_wallet_id, to_wallet_id, amount, release_reservation) ==
  IF from_wallet_id \notin DOMAIN ws THEN Refused
  ELSE IF to_wallet_id \notin DOMAIN ws
  THEN [ok |-> FALSE,
        writes |-> <<Update(from_wallet_id,
                       [balance |-> ws[from_wallet_id].balance - amount])>>]
  ELSE LET from_wallet == ws[from_wallet_id]
           to_wallet == ws[to_wallet_id]
           new_from_balance == from_wallet.balance - amount
           new_reserved == from_wallet.reserved_balance - amount
           new_to_balance == to_wallet.balance + amount
       IN IF release_reservation
          THEN IF from_wallet.reserved_balance < amount
               THEN [ok |-> FALSE,
                     writes |-> <<Update(from_wallet_id, [balance |-> new_from_balance])>>]
               ELSE Done(<<Update(from_wallet_id,
                             [balance |-> new_from_balance,
                              reserved_balance |-> new_reserved]),
                           Update(to_wallet_id, [balance |-> new_to_balance])>>)
          ELSE IF from_wallet.balance - from_wallet.reserved_balance < amount
               THEN [ok |-> FALSE,
                     writes |-> <<Update(from_wallet_id, [balance |-> new_from_balance])>>]
               ELSE Done(<<Update(from_wallet_id, [balance |-> new_from_balance]),
                           Update(to_wallet_id, [balance |-> new_to_balance])>>)

transfer_between_wallets(ws, from_wallet_id, to_wallet_id, amount, release_reservation) ==
  IF from_wallet_id \notin DOMAIN ws THEN Refused
  ELSE IF to_wallet_id \notin DOMAIN ws THEN Refused
  ELSE LET from_wallet == ws[from_wallet_id]
           to_wallet == ws[to_wallet_id]
       IN IF release_reservation
          THEN IF from_wallet.reserved_balance < amount THEN Refused
               ELSE LET new_from_balance == from_wallet.balance - amount
                        new_reserved == from_wallet.reserved_balance - amount
                        new_to_balance == to_wallet.balance + amount
                    IN IF new_from_balance < new_reserved THEN Refused
                       ELSE Done(<<Update(from_wallet_id,
                                     [balance |-> new_from_balance,
                                      reserved_balance |-> new_reserved]),
                                   Update(to_wallet_id, [balance |-> new_to_balance])>>)
          ELSE LET available == from_wallet.balance - from_wallet.reserved_balance
               IN IF available < amount THEN Refused
                  ELSE LET new_from_balance == from_wallet.balance - amount
                           new_to_balance == to_wallet.balance + amount
                       IN IF new_from_balance < from_wallet.reserved_balance THEN Refused
                          ELSE Done(<<Update(from_wallet_id, [balance |-> new_from_balance]),
                                      Update(to_wallet_id, [balance |-> new_to_balance])>>)

execute_dual_settlement(ws, seller_base_wallet_id, buyer_base_wallet_id, seller_quote_wallet_id, buyer_quote_wallet_id, base_amount, quote_amount) ==
  IF ~ ({seller_base_wallet_id, buyer_base_wallet_id,
         buyer_quote_wallet_id, seller_quote_wallet_id} \subseteq DOMAIN ws)
  THEN Refused
  ELSE LET seller_base == ws[seller_base_wallet_id]
           buyer_base == ws[buyer_base_wallet_id]
           buyer_quote == ws[buyer_quote_wallet_id]
           seller_quote == ws[seller_quote_wallet_id]
       IN IF seller_base.reserved_balance < base_amount THEN Refused
          ELSE IF buyer_quote.reserved_balance < quote_amount THEN Refused
          ELSE LET new_seller_base_balance == seller_base.balance - base_amount
                   new_seller_base_reserved == seller_base.reserved_balance - base_amount
                   new_buyer_base_balance == buyer_base.balance + base_amount
                   new_buyer_quote_balance == buyer_quote.balance - quote_amount
                   new_buyer_quote_reserved == buyer_quote.reserved_balance - quote_amount
                   new_seller_quote_balance == seller_quote.balance + quote_amount
               IN IF new_seller_base_balance < new_seller_base_reserved THEN Refused
                  ELSE IF new_buyer_quote_balance < new_buyer_quote_reserved THEN Refused
                  ELSE Done(<<Update(seller_base_wallet_id,
                                [balance |-> new_seller_base_balance,
                                 reserved_balance |-> new_seller_base_reserved]),
                              Update(buyer_base_wallet_id,
                                [balance |-> new_buyer_base_balance]),
                              Update(buyer_quote_wallet_id,
                                [balance |-> new_buyer_quote_balance,
                                 reserved_balance |-> new_buyer_quote_reserved]),
                              Update(seller_quote_wallet_id,
                                [balance |-> new_seller_quote_balance])>>)

\* DatabaseStorage.update_wallet_balance: one unconditional UPDATE of balance.
update_wallet_balance(ws, wallet_id, new_balance) ==
  Done(<<Update(wallet_id, [balance |-> new_balance])>>)

\* --------------------------------------------------- calls made one at a time
InRange(ws) ==
  \A id \in DOMAIN ws :
    ws[id].balance \in Balances /\ ws[id].reserved_balance \in Balances

\* A call that runs alone: its transaction commits every UPDATE it issued.
Returns(call, res) ==
  /\ InRange(ApplyWrites(wallets, res.writes))
  /\ wallets' = ApplyWrites(wallets, res.writes)
  /\ last' = [call EXCEPT !.ok = res.ok, !.pre = wallets]
  /\ UNCHANGED <<concVars, matchVars, bookVars, offerVars>>

Reserve ==
  \E w \in WalletArgs, a \in Amounts :
    Returns([op |-> "reserve", w |-> w, a |-> a, ok |-> FALSE, pre |-> <<>>],
            reserve_wallet_funds(wallets, w, a))

Release ==
  \E w \in WalletArgs, a \in Amounts :
    Returns([op |-> "release", w |-> w, a |-> a, ok |-> FALSE, pre |-> <<>>],
            release_wallet_funds(wallets, w, a))

Transfer ==
  \E f \in WalletArgs, t \in WalletArgs, a \in Amounts, rel \in BOOLEAN :
    Returns([op |-> "transfer", from |-> f, to |-> t, a |-> a, release |-> rel,
             ok |-> FALSE, pre |-> <<>>],
            transfer_between_wallets(wallets, f, t, a, rel))

\* PATCH /api/wallets/{wallet_id}/balance: 404 unless the wallet exists (the
\* owner check is the request layer's), else the balance is overwritten.
UpdateWalletBalance ==
  \E w \in WalletArgs, b \in Balances :
    IF w \notin DOMAIN wallets
    THEN Returns([op |-> "update", w |-> w, a |-> b, ok |-> FALSE, pre |-> <<>>], Refused)
    ELSE Returns([op |-> "update", w |-> w, a |-> b, ok |-> FALSE, pre |-> <<>>],
                 update_wallet_balance(wallets, w, b))

\* Wallets are created with a balance and no reservation (create_wallet).
Init ==
  /\ wallets \in [PairIds -> {Row(b, 0) : b \in 0..MaxBal}]
  /\ last = NoCall
  /\ tx = <<>>
  /\ log = <<>>
  /\ level = NoLevel
  /\ orders = <<>>
  /\ trades = <<>>
  /\ match = <<>>
  /\ offers = <<>>
  /\ acceptances = <<>>
  /\ stats = <<>>
  /\ accept = <<>>
  /\ opening = <<>>

Next == Reserve \/ Release \/ Transfer \/ UpdateWalletBalance

Spec == Init /\ [][Next]_vars

\* ----------------------------------------- one settlement call on four wallets
\* The four wallet arguments of a dual settlement: the four distinct wallets, or
\* that tuple with one argument replaced (a missing id, or another argument's wallet).
Canonical == <<"w1", "w2", "w3", "w4">>
DualArgs ==
  {t \in [1..4 -> QuadIds \cup {Missing}] :
     Cardinality({i \in 1..4 : t[i] # Canonical[i]}) <= 1}

DualSettlement ==
  \E t \in DualArgs, base \in PosAmounts, quote \in PosAmounts :
    /\ t \in [1..4 -> WalletArgs]
    /\ Returns([op |-> "dual", seller_base |-> t[1], buyer_base |-> t[2],
                buyer_quote |-> t[3], seller_quote |-> t[4],
                base |-> base, quote |-> quote, ok |-> FALSE, pre |-> <<>>],
               execute_dual_settlement(wallets, t[1], t[2], t[4], t[3], base, quote))

\* Four wallets in any state the ledger and the wallet route can leave them in,
\* and then one transfer or one dual settlement.
InitSettle ==
  /\ wallets \in [QuadIds -> {Row(b, r) : b \in 0..MaxBal, r \in 0..MaxBal}]
  /\ last = NoCall
  /\ tx = <<>>
  /\ log = <<>>
  /\ level = NoLevel
  /\ orders = <<>>
  /\ trades = <<>>
  /\ match = <<>>
  /\ offers = <<>>
  /\ acceptances = <<>>
  /\ stats = <<>>
  /\ accept = <<>>
  /\ opening = <<>>

SettleTransfer == last.op = "none" /\ Transfer
SettleDual == last.op = "none" /\ DualSettlement

NextSettle == SettleTransfer \/ SettleDual

SpecSettle == InitSettle /\ [][NextSettle]_vars

\* ------------------------- sequences of ledger calls on four distinct wallets
\* The four primitives called one after another with strictly positive amounts
\* and pairwise distinct wallet ids (an id may be one that no row has). Rows are
\* kept below the bound from above only: a negative column or a reservation
\* above the balance is a state like any other.
Capped(ws) ==
  \A id \in DOMAIN ws : ws[id].balance <= MaxBal /\ ws[id].reserved_balance <= MaxBal

Commits(op, res) ==
  /\ Capped(ApplyWrites(wallets, res.writes))
  /\ wallets' = ApplyWrites(wallets, res.writes)
  /\ last' = [op |-> op, ok |-> res.ok]
  /\ UNCHANGED <<concVars, matchVars, bookVars, offerVars>>

LedgerReserve ==
  \E w \in WalletArgs, a \in PosAmounts :
    Commits("reserve", reserve_wallet_funds(wallets, w, a))

LedgerRelease ==
  \E w \in WalletArgs, a \in PosAmounts :
    Commits("release", release_wallet_funds(wallets, w, a))

LedgerTransfer ==
  \E f \in WalletArgs, t \in WalletArgs, a \in PosAmounts, rel \in BOOLEAN :
    /\ f # t
    /\ Commits("transfer", transfer_between_wallets(wallets, f, t, a, rel))

LedgerDual ==
  \E seller_base \in WalletArgs, base \in PosAmounts, quote \in PosAmounts :
    \E buyer_base \in WalletArgs \ {seller_base} :
      \E buyer_quote \in WalletArgs \ {seller_base, buyer_base} :
        \E seller_quote \in WalletArgs \ {seller_base, buyer_base, buyer_quote} :
          Commits("dual", execute_dual_settlement(wallets, seller_base, buyer_base,
                                                  seller_quote, buyer_quote, base, quote))

InitLedger ==
  /\ wallets \in [QuadIds -> {Row(b, r) : b \in 0..MaxBal, r \in 0..MaxBal}]
  /\ \A id \in QuadIds : wallets[id].reserved_balance <= wallets[id].balance
  /\ last = NoCall
  /\ tx = <<>>
  /\ log = <<>>
  /\ level = NoLevel
  /\ orders = <<>>
  /\ trades = <<>>
  /\ match = <<>>
  /\ offers = <<>>
  /\ acceptances = <<>>
  /\ stats = <<>>
  /\ accept = <<>>
  /\ opening = <<>>

NextLedger == LedgerReserve \/ LedgerRelease \/ LedgerTransfer \/ LedgerDual

SpecLedger == InitLedger /\ [][NextLedger]_vars

\* ------------------------------------ ledger calls with amounts of any sign
\* amount is a Decimal the routes pass on unchecked (create_offer hands the
\* offer's amount to reserve_wallet_funds), so it may be zero or negative.
SignedAmounts == (0 - MaxAmt)..MaxAmt

Bounded(ws) ==
  \A id \in DOMAIN ws :
    /\ ws[id].balance \in (0 - MaxBal)..MaxBal
    /\ ws[id].reserved_balance \in (0 - MaxBal)..MaxBal

Called(call, res) ==
  /\ Bounded(ApplyWrites(wallets, res.writes))
  /\ wallets' = ApplyWrites(wallets, res.writes)
  /\ last' = [call EXCEPT !.ok = res.ok]
  /\ UNCHANGED <<concVars, matchVars, bookVars, offerVars>>

SignedReserve ==
  \E w \in WalletArgs, a \in SignedAmounts :
    Called([op |-> "reserve", w |-> w, a |-> a, ok |-> FALSE],
           reserve_wallet_funds(wallets, w, a))

SignedRelease ==
  \E w \in WalletArgs, a \in SignedAmounts :
    Called([op |-> "release", w |-> w, a |-> a, ok |-> FALSE],
           release_wallet_funds(wallets, w, a))

SignedTransfer ==
  \E f \in WalletArgs, t \in WalletArgs, a \in SignedAmounts, rel \in BOOLEAN :
    /\ f # t
    /\ Called([op |-> "transfer", from |-> f, to |-> t, a |-> a, release |-> rel, ok |-> FALSE],
              transfer_between_wallets(wallets, f, t, a, rel))

InitSigned ==
  /\ wallets \in [PairIds -> {Row(b, r) : b \in 0..MaxBal, r \in 0..MaxBal}]
  /\ \A id \in PairIds : wallets[id].reserved_balance <= wallets[id].balance
  /\ last = NoCall
  /\ tx = <<>>
  /\ log = <<>>
  /\ level = NoLevel
  /\ orders = <<>>
  /\ trades = <<>>
  /\ match = <<>>
  /\ offers = <<>>
  /\ acceptances = <<>>
  /\ stats = <<>>
  /\ accept = <<>>
  /\ opening = <<>>

NextSigned == SignedReserve \/ SignedRelease \/ SignedTransfer

SpecSigned == InitSigned /\ [][NextSigned]_vars

\* ------------------------------------------- ledger calls running concurrently
\* Each request runs one ledger primitive in its own connection:
\*   async with self.pool.acquire() as conn:
\*       async with conn.transaction(isolation='serializable'):
\* The store is PostgreSQL: a SELECT ... FOR UPDATE takes the row's lock or waits
\* for its holder; UPDATEs stay private to the transaction until it commits; a
\* serializable transaction that reaches a row another transaction changed after
\* its snapshot is rolled back with a serialization failure, and one of two
\* transactions waiting for each other's locks is rolled back as a deadlock
\* victim. Either error leaves the primitive as an exception (it has no handler).
Procs == {"p1", "p2"}

\* The rows a primitive selects FOR UPDATE, in statement order.
LockOrder(call) ==
  CASE call.op \in {"reserve", "release"} -> <<call.w>>
    [] call.op = "transfer" -> <<call.from, call.to>>
    [] call.op = "dual" ->
         <<call.seller_base, call.buyer_base, call.buyer_quote, call.seller_quote>>

\* The primitive's validation and UPDATEs on the rows its SELECTs returned.
Run(rows, call) ==
  CASE call.op = "reserve" -> reserve_wallet_funds(rows, call.w, call.a)
    [] call.op = "release" -> release_wallet_funds(rows, call.w, call.a)
    [] call.op = "transfer" ->
         transfer_between_wallets(rows, call.from, call.to, call.a, call.release)
    [] call.op = "dual" ->
         execute_dual_settlement(rows, call.seller_base, call.buyer_base,
                                 call.seller_quote, call.buyer_quote,
                                 call.base, call.quote)

ConcCalls ==
  {[op |-> o, w |-> w, a |-> a] :
     o \in {"reserve", "release"}, w \in PairIds, a \in PosAmounts}
  \cup {[op |-> "transfer", from |-> ft[1], to |-> ft[2], a |-> 1, release |-> rel] :
          ft \in {<<"w1", "w2">>, <<"w2", "w1">>}, rel \in BOOLEAN}
  \cup {[op |-> "dual", seller_base |-> "w1", buyer_base |-> "w2",
         buyer_quote |-> "w3", seller_quote |-> "w4", base |-> 1, quote |-> 1],
        [op |-> "dual", seller_base |-> "w3", buyer_base |-> "w4",
         buyer_quote |-> "w1", seller_quote |-> "w2", base |-> 1, quote |-> 1]}

Idle == [pc |-> "idle", call |-> NoCall, idx |-> 0, rows |-> <<>>,
         held |-> {}, stale |-> {}, ok |-> FALSE]

LockedByOther(p, id) == \E q \in Procs \ {p} : id \in tx[q].held

\* The next row p's transaction selects, when it still has one to select.
Selecting(p) == tx[p].pc = "run" /\ tx[p].idx < Len(LockOrder(tx[p].call))
NextRow(p) == LockOrder(tx[p].call)[tx[p].idx + 1]
Waiting(p) ==
  Selecting(p) /\ NextRow(p) \in DOMAIN wallets /\ LockedByOther(p, NextRow(p))

\* The request enters the primitive; the snapshot is that of its first statement.
Begin(p) ==
  \E call \in ConcCalls :
    /\ tx[p].pc = "idle"
    /\ tx' = [tx EXCEPT ![p] = [Idle EXCEPT !.pc = "run", !.call = call]]
    /\ UNCHANGED <<wallets, last, log, level, bookVars, offerVars>>

\* conn.fetchrow("SELECT ... FROM wallets WHERE id = $1 FOR UPDATE", id)
Select(p) ==
  /\ Selecting(p)
  /\ LET id == NextRow(p)
     IN IF id \notin DOMAIN wallets
        THEN tx' = [tx EXCEPT ![p].idx = @ + 1]
        ELSE /\ ~LockedByOther(p, id)
             /\ id \notin tx[p].stale
             /\ tx' = [tx EXCEPT ![p].idx = @ + 1,
                                 ![p].held = @ \cup {id},
                                 ![p].rows = [i \in DOMAIN @ \cup {id} |->
                                                IF i = id THEN wallets[id] ELSE @[i]]]
  /\ UNCHANGED <<wallets, last, log, level, bookVars, offerVars>>

\* The store refuses the SELECT: the row changed after the snapshot.
SerializationFailure(p) ==
  /\ Selecting(p)
  /\ NextRow(p) \in DOMAIN wallets
  /\ ~LockedByOther(p, NextRow(p))
  /\ NextRow(p) \in tx[p].stale
  /\ tx' = [tx EXCEPT ![p].pc = "raised", ![p].held = {}]
  /\ UNCHANGED <<wallets, last, log, level, bookVars, offerVars>>

\* The store breaks a lock cycle by rolling one of its transactions back.
DeadlockVictim(p) ==
  /\ \E q \in Procs \ {p} :
       /\ Waiting(p) /\ NextRow(p) \in tx[q].held
       /\ Waiting(q) /\ NextRow(q) \in tx[p].held
  /\ tx' = [tx EXCEPT ![p].pc = "raised", ![p].held = {}]
  /\ UNCHANGED <<wallets, last, log, level, bookVars, offerVars>>

\* Leaving conn.transaction(): every UPDATE of the transaction becomes visible at once.
CommitPartly(ws, writes) ==
  IF writes = <<>> THEN ws ELSE ApplyWrite(ws, Head(writes))

Commit(ws, writes) == ApplyWrites(ws, writes)

\* Validation, the UPDATEs and the return, with the commit on leaving the block.
Finish(p) ==
  /\ tx[p].pc = "run"
  /\ tx[p].idx = Len(LockOrder(tx[p].call))
  /\ LET res == Run(tx[p].rows, tx[p].call)
         written == {res.writes[i].id : i \in 1..Len(res.writes)}
     IN /\ wallets' = Commit(wallets, res.writes)
        /\ tx' = [q \in Procs |->
                    IF q = p
                    THEN [tx[p] EXCEPT !.pc = "returned", !.held = {}, !.ok = res.ok]
                    ELSE IF tx[q].pc = "run"
                    THEN [tx[q] EXCEPT !.stale = @ \cup written]
                    ELSE tx[q]]
        /\ log' = Append(log, [call |-> tx[p].call, ok |-> res.ok])
  /\ UNCHANGED <<last, level, bookVars, offerVars>>

Funded == [id \in QuadIds |-> Row(MaxBal, 1)]

InitConc ==
  /\ wallets = Funded
  /\ last = NoCall
  /\ tx = [p \in Procs |-> Idle]
  /\ log = <<>>
  /\ level = NoLevel
  /\ orders = <<>>
  /\ trades = <<>>
  /\ match = <<>>
  /\ offers = <<>>
  /\ acceptances = <<>>
  /\ stats = <<>>
  /\ accept = <<>>
  /\ opening = <<>>

NextConc ==
  \E p \in Procs :
    \/ Begin(p)
    \/ Select(p)
    \/ SerializationFailure(p)
    \/ DeadlockVictim(p)
    \/ Finish(p)

SpecConc == InitConc /\ [][NextConc]_vars

\* The store runs every statement it can run, and its deadlock detector ends a
\* lock cycle after deadlock_timeout; requests need not arrive.
Proceeds(p) == Select(p) \/ SerializationFailure(p) \/ DeadlockVictim(p) \/ Finish(p)

SpecConcFair == SpecConc /\ \A p \in Procs : WF_vars(Proceeds(p))


\* --------------------------------------------- one price level of match_order
\* Python's Decimal context: 28 significant digits, ROUND_HALF_EVEN.
Precision == 28

Min(a, b) == IF a <= b THEN a ELSE b

RECURSIVE Digits(_)
Digits(n) == IF n = 0 THEN 0 ELSE 1 + Digits(n \div 10)

RECURSIVE Pow10(_)
Pow10(k) == IF k = 0 THEN 1 ELSE 10 * Pow10(k - 1)

RECURSIVE Pow10Mod(_, _)
Pow10Mod(k, m) == IF k = 0 THEN 1 % m ELSE (10 * Pow10Mod(k - 1, m)) % m

\* The zeros between the decimal point and the first significant digit of u / t.
RECURSIVE LeadingZeros(_, _)
LeadingZeros(u, t) == IF u * 10 >= t THEN 0 ELSE 1 + LeadingZeros(u * 10, t)

\* ((unfilled / total_unfilled) * total_fill).quantize(Decimal("0.00000001")),
\* in units, for 0 < unfilled and 0 < total_unfilled: the quotient is rounded to
\* Precision digits, the product again, and the quantize rounds half to even. The
\* result is the nearest unit of the exact share; when the exact share lies half
\* way between two units, the error e of the rounded quotient (in units of its
\* last digit, scaled by total_fill) decides: if it survives the rounding of the
\* product the share is rounded towards it, otherwise half goes to even.
ProRataShare(unfilled, total_unfilled, total_fill) ==
  LET n == unfilled * total_fill
      fl == n \div total_unfilled
      rem == n % total_unfilled
      even == IF fl % 2 = 0 THEN fl ELSE fl + 1
      k == IF unfilled >= total_unfilled
           THEN Precision - Digits(unfilled \div total_unfilled)
           ELSE Precision + LeadingZeros(unfilled, total_unfilled)
      r == (unfilled * Pow10Mod(k, total_unfilled)) % total_unfilled
      e == IF 2 * r < total_unfilled
           THEN 0 - ((total_fill * r) \div total_unfilled)
           ELSE (total_fill * (total_unfilled - r)) \div total_unfilled
      abs_e == IF e < 0 THEN 0 - e ELSE e
      d == k + Digits(fl) - Precision
  IN IF 2 * rem < total_unfilled THEN fl
     ELSE IF 2 * rem > total_unfilled THEN fl + 1
     ELSE IF r = 0 THEN even
     ELSE IF d >= 1 /\ 2 * abs_e <= Pow10(d) THEN even
     ELSE IF e > 0 THEN fl + 1
     ELSE fl

Unfilled(o) == o.amount - o.filled_amount

RECURSIVE SumUnfilled(_)
SumUnfilled(counter_orders) ==
  IF counter_orders = <<>> THEN 0
  ELSE Unfilled(Head(counter_orders)) + SumUnfilled(Tail(counter_orders))

RECURSIVE DistributeUncapped(_, _, _, _, _)
DistributeUncapped(counter_orders, total_unfilled, total_fill, i, allocated) ==
  IF i > Len(counter_orders) THEN <<>>
  ELSE LET unfilled == Unfilled(counter_orders[i])
           share == IF i = Len(counter_orders)
                    THEN total_fill - allocated
                    ELSE ProRataShare(unfilled, total_unfilled, total_fill)
           traded == IF unfilled <= 0 THEN 0 ELSE share
       IN <<traded>> \o DistributeUncapped(counter_orders, total_unfilled, total_fill,
                                           i + 1, allocated + traded)

\* The loop of _distribute_pro_rata from index i on: the amount traded with each
\* counter order (0 where the loop makes no trade).
RECURSIVE Distribute(_, _, _, _, _)
Distribute(counter_orders, total_unfilled, total_fill, i, allocated) ==
  IF i > Len(counter_orders) THEN <<>>
  ELSE LET unfilled == Unfilled(counter_orders[i])
           share == IF i = Len(counter_orders)
                    THEN total_fill - allocated
                    ELSE ProRataShare(unfilled, total_unfilled, total_fill)
           fill_amount == IF unfilled <= 0 THEN 0 ELSE Min(share, unfilled)
           traded == IF fill_amount > 0 THEN fill_amount ELSE 0
       IN <<traded>> \o Distribute(counter_orders, total_unfilled, total_fill,
                                   i + 1, allocated + traded)

distribute_pro_rata(counter_orders, total_fill) ==
  LET total_unfilled == SumUnfilled(counter_orders)
  IN IF total_unfilled = 0 THEN [i \in DOMAIN counter_orders |-> 0]
     ELSE Distribute(counter_orders, total_unfilled, total_fill, 1, 0)

\* update_order_status(counter_order["id"], counter_status, new_filled) after a trade.
Filled(o, fill_amount) ==
  IF fill_amount > 0
  THEN [o EXCEPT !.filled_amount = @ + fill_amount,
                 !.status = IF o.filled_amount + fill_amount >= o.amount
                            THEN "completed" ELSE "partial"]
  ELSE o

RECURSIVE SumSeq(_)
SumSeq(s) == IF s = <<>> THEN 0 ELSE Head(s) + SumSeq(Tail(s))

\* The orders get_pending_orders returns for one price: pending, nothing filled.
Resting(size) == [amount |-> size, filled_amount |-> 0, status |-> "pending"]
Levels ==
  UNION {[1..n -> {Resting(size) : size \in 1..MaxSize}] : n \in 1..MaxResting}

\* One iteration of the loop over price_levels in match_order.
MatchLevel ==
  /\ level.pc = "open"
  /\ LET total_available == SumUnfilled(level.orders)
         fill_at_price == Min(level.remaining_amount, total_available)
         trades_at_price == distribute_pro_rata(level.orders, fill_at_price)
     IN IF level.remaining_amount <= 0 \/ total_available <= 0
        THEN level' = [level EXCEPT !.pc = "skipped"]
        ELSE level' = [level EXCEPT
                         !.pc = "done",
                         !.fill_at_price = fill_at_price,
                         !.trades = trades_at_price,
                         !.orders = [i \in DOMAIN @ |-> Filled(@[i], trades_at_price[i])],
                         !.remaining_amount = @ - fill_at_price]
  /\ UNCHANGED <<wallets, last, tx, log, bookVars, offerVars>>

InitLevel ==
  /\ wallets = [id \in PairIds |-> Row(0, 0)]
  /\ last = NoCall
  /\ tx = <<>>
  /\ log = <<>>
  /\ level \in [orders : Levels, remaining_amount : 1..MaxIncoming,
                fill_at_price : {0}, trades : {<<>>}, pc : {"open"}]
  /\ orders = <<>>
  /\ trades = <<>>
  /\ match = <<>>
  /\ offers = <<>>
  /\ acceptances = <<>>
  /\ stats = <<>>
  /\ accept = <<>>
  /\ opening = <<>>

NextLevel == MatchLevel

SpecLevel == InitLevel /\ [][NextLevel]_vars

\* ------------------------------------------------ order submission and matching
\* POST /api/orders inserts the order and runs ProRataMatchingEngine.match_order
\* on it. The engine is modelled as matching_engine.py is written; each call it
\* makes on the store is one statement in its own connection, so requests
\* interleave between any two of them. The store answers the engine's calls with
\* the statements of db_storage.py (get_pending_orders: the pending rows of the
\* counter side; update_order_status; update_wallet_balance; create_wallet); the
\* model has one currency pair, and an order's price is its exchange_rate.
Users == {"u1", "u2"}
Submitters == {"s1", "s2"}
Sides == {"buy", "sell"}
Prices == 1..MaxPrice
OrderAmounts == 1..MaxOrderAmt
Crypto == "BTC"

\* A row of table wallets with its owner.
UserWallet(user_id, b) ==
  [balance |-> b, reserved_balance |-> 0, user_id |-> user_id, cryptocurrency |-> Crypto,
   wallet_type |-> "hot"]

\* INSERT INTO orders (..., status, created_at) VALUES (..., 'pending', now()).
NewOrder(id, user_id, order_type, amount, price) ==
  [id |-> id, user_id |-> user_id, order_type |-> order_type, amount |-> amount,
   price |-> price, filled_amount |-> 0, status |-> "pending", created_at |-> id]

\* SELECT * FROM orders WHERE ... order_type = $3 AND status = 'pending'.
get_pending_orders(rows, order_type) ==
  {rows[i] : i \in {j \in DOMAIN rows :
                      rows[j].order_type = order_type /\ rows[j].status = "pending"}}

MatchableUnfiltered(new_order, counter_orders) == counter_orders

\* The price filter of match_order.
Matchable(new_order, counter_orders) ==
  IF new_order.order_type = "buy"
  THEN {o \in counter_orders : o.price <= new_order.price}
  ELSE {o \in counter_orders : o.price >= new_order.price}

SortsBeforeLatestFirst(a, b, order_type) ==
  IF order_type = "buy"
  THEN a.price < b.price \/ (a.price = b.price /\ a.created_at < b.created_at)
  ELSE a.price > b.price \/ (a.price = b.price /\ a.created_at > b.created_at)

\* The sort keys of match_order: (price, created_at) for an incoming buy,
\* (-price, created_at) for an incoming sell.
SortsBefore(a, b, order_type) ==
  IF order_type = "buy"
  THEN a.price < b.price \/ (a.price = b.price /\ a.created_at < b.created_at)
  ELSE a.price > b.price \/ (a.price = b.price /\ a.created_at < b.created_at)

RECURSIVE SortMatchable(_, _)
SortMatchable(S, order_type) ==
  IF S = {} THEN <<>>
  ELSE LET first == CHOOSE a \in S : \A b \in S \ {a} : SortsBefore(a, b, order_type)
       IN <<first>> \o SortMatchable(S \ {first}, order_type)

RECURSIVE Ascending(_)
Ascending(P) ==
  IF P = {} THEN <<>>
  ELSE LET least == CHOOSE x \in P : \A y \in P : x <= y
       IN <<least>> \o Ascending(P \ {least})

\* _group_by_price: the orders of each price in the order given, the prices
\* sorted(price_levels.items(), key=lambda x: x[0]).
group_by_price(matchable_orders) ==
  LET prices == Ascending({matchable_orders[i].price : i \in DOMAIN matchable_orders})
      AtPrice(price) == SelectSeq(matchable_orders, LAMBDA o : o.price = price)
  IN [i \in DOMAIN prices |-> [price |-> prices[i], orders |-> AtPrice(prices[i])]]

\* The trades _distribute_pro_rata makes at one level: one for each counter
\* order it gives a positive fill_amount.
LevelFills(counter_orders, traded, execution_price) ==
  LET all == [i \in DOMAIN counter_orders |->
                [counter |-> counter_orders[i], amount |-> traded[i],
                 price |-> execution_price]]
  IN SelectSeq(all, LAMBDA f : f.amount > 0)

\* The loop over price_levels in match_order: the fills in the order they are
\* executed and the remaining_amount it ends with.
RECURSIVE MatchLevels(_, _)
MatchLevels(price_levels, remaining_amount) ==
  IF price_levels = <<>> \/ remaining_amount <= 0
  THEN [fills |-> <<>>, remaining_amount |-> remaining_amount]
  ELSE LET lvl == Head(price_levels)
           total_available == SumUnfilled(lvl.orders)
       IN IF total_available <= 0
          THEN MatchLevels(Tail(price_levels), remaining_amount)
          ELSE LET fill_at_price == Min(remaining_amount, total_available)
                   traded == distribute_pro_rata(lvl.orders, fill_at_price)
                   rest == MatchLevels(Tail(price_levels), remaining_amount - fill_at_price)
               IN [fills |-> LevelFills(lvl.orders, traded, lvl.price) \o rest.fills,
                   remaining_amount |-> rest.remaining_amount]

NewOrderStatusAnyFill(amount, filled_amount) ==
  IF filled_amount > 0 THEN "completed" ELSE "pending"

\* The status match_order derives for the incoming order.
NewOrderStatus(amount, filled_amount) ==
  IF filled_amount >= amount THEN "completed"
  ELSE IF filled_amount > 0 THEN "partial"
  ELSE "pending"

\* UPDATE orders SET status = $1, filled_amount = $2 WHERE id = $3.
update_order_status(rows, order_id, status, filled_amount) ==
  [rows EXCEPT ![order_id].status = status, ![order_id].filled_amount = filled_amount]

\* _execute_trade: who buys and who sells.
Buyer(new_order, counter_order) ==
  IF new_order.order_type = "buy" THEN new_order ELSE counter_order
Seller(new_order, counter_order) ==
  IF new_order.order_type = "buy" THEN counter_order ELSE new_order

NoWallet == [found |-> FALSE]
IdleMatch == [pc |-> "idle", new_order |-> NoCall, fills |-> <<>>, k |-> 0,
              remaining_amount |-> 0, wallet |-> NoWallet, trades |-> <<>>]
\* A request that is not made.
NoRequest == [IdleMatch EXCEPT !.pc = "none"]

\* The fill the request is executing.
Fill(p) == match[p].fills[match[p].k]

\* get_user_wallet_by_crypto: ... WHERE user_id = $1 AND cryptocurrency = $2
\* LIMIT 1 returns any one of the matching rows, or none.
WalletReadings(user_id) ==
  LET found == {id \in DOMAIN wallets : wallets[id].user_id = user_id
                                        /\ wallets[id].cryptocurrency = Crypto}
  IN IF found = {} THEN {NoWallet}
     ELSE {[found |-> TRUE, id |-> id, balance |-> wallets[id].balance] : id \in found}

\* order = await db.create_order(order_dict)
CreateOrder(p) ==
  \E user_id \in Users, order_type \in Sides, amount \in OrderAmounts, price \in Prices :
    /\ match[p].pc = "idle"
    /\ LET order == NewOrder(Len(orders) + 1, user_id, order_type, amount, price)
       IN /\ orders' = Append(orders, order)
          /\ match' = [match EXCEPT ![p].pc = "fetch", ![p].new_order = order]
    /\ UNCHANGED <<wallets, trades, last, tx, log, level, offerVars>>

\* match_order up to the first trade: the fetch of the counter orders, the
\* filter, the sort, the grouping and the amounts of every level.
FetchPending(p) ==
  /\ match[p].pc = "fetch"
  /\ LET new_order == match[p].new_order
         counter_type == IF new_order.order_type = "buy" THEN "sell" ELSE "buy"
         counter_orders == get_pending_orders(orders, counter_type)
         matchable_orders ==
           SortMatchable(Matchable(new_order, counter_orders), new_order.order_type)
         price_levels == group_by_price(matchable_orders)
         res == MatchLevels(price_levels, new_order.amount)
     IN match' = [match EXCEPT ![p].fills = res.fills,
                               ![p].remaining_amount = res.remaining_amount,
                               ![p].k = 1,
                               ![p].pc = IF res.fills = <<>> THEN "finish" ELSE "seller"]
  /\ UNCHANGED <<wallets, orders, trades, last, tx, log, level, offerVars>>

\* seller_wallet = await self.db.get_user_wallet_by_crypto(seller_id, cryptocurrency)
ReadSeller(p) ==
  /\ match[p].pc = "seller"
  /\ \E w \in WalletReadings(Seller(match[p].new_order, Fill(p).counter).user_id) :
       match' = [match EXCEPT ![p].wallet = w,
                              ![p].pc = IF w.found THEN "debit" ELSE "buyer"]
  /\ UNCHANGED <<wallets, orders, trades, last, tx, log, level, offerVars>>

\* update_wallet_balance(seller_wallet["id"], seller_wallet["balance"] - amount)
DebitSeller(p) ==
  /\ match[p].pc = "debit"
  /\ LET w == match[p].wallet
     IN wallets' = ApplyWrites(wallets,
                     update_wallet_balance(wallets, w.id, w.balance - Fill(p).amount).writes)
  /\ match' = [match EXCEPT ![p].pc = "buyer"]
  /\ UNCHANGED <<orders, trades, last, tx, log, level, offerVars>>

\* buyer_wallet = await self.db.get_user_wallet_by_crypto(buyer_id, cryptocurrency)
ReadBuyer(p) ==
  /\ match[p].pc = "buyer"
  /\ \E w \in WalletReadings(Buyer(match[p].new_order, Fill(p).counter).user_id) :
       match' = [match EXCEPT ![p].wallet = w, ![p].pc = "credit"]
  /\ UNCHANGED <<wallets, orders, trades, last, tx, log, level, offerVars>>

\* update_wallet_balance(buyer_wallet["id"], buyer_wallet["balance"] + amount),
\* or create_wallet with balance = amount when the read found no wallet.
CreditBuyer(p) ==
  /\ match[p].pc = "credit"
  /\ LET w == match[p].wallet
         buyer_id == Buyer(match[p].new_order, Fill(p).counter).user_id
     IN IF w.found
        THEN wallets' = ApplyWrites(wallets,
                          update_wallet_balance(wallets, w.id, w.balance + Fill(p).amount).writes)
        ELSE /\ QuadIds \ DOMAIN wallets # {}
             /\ LET wallet_id == CHOOSE id \in QuadIds \ DOMAIN wallets : TRUE
                IN wallets' = [id \in DOMAIN wallets \cup {wallet_id} |->
                                 IF id = wallet_id
                                 THEN UserWallet(buyer_id, Fill(p).amount)
                                 ELSE wallets[id]]
  /\ match' = [match EXCEPT ![p].pc = "trade"]
  /\ UNCHANGED <<orders, trades, last, tx, log, level, offerVars>>

\* trade = await self.db.create_trade({...})
CreateTrade(p) ==
  /\ match[p].pc = "trade"
  /\ LET new_order == match[p].new_order
         counter_order == Fill(p).counter
         trade == [buyer_id |-> Buyer(new_order, counter_order).user_id,
                   seller_id |-> Seller(new_order, counter_order).user_id,
                   buy_order_id |-> Buyer(new_order, counter_order).id,
                   sell_order_id |-> Seller(new_order, counter_order).id,
                   amount |-> Fill(p).amount,
                   price |-> Fill(p).price]
     IN /\ trades' = Append(trades, trade)
        /\ match' = [match EXCEPT ![p].trades = Append(@, trade), ![p].pc = "counter"]
  /\ UNCHANGED <<wallets, orders, last, tx, log, level, offerVars>>

\* update_order_status(counter_order["id"], counter_status, new_filled), from the
\* counter order as it was fetched; then the next fill, or the end of the levels.
UpdateCounterOrder(p) ==
  /\ match[p].pc = "counter"
  /\ LET counter_order == Fill(p).counter
         new_filled == counter_order.filled_amount + Fill(p).amount
         counter_status == IF new_filled >= counter_order.amount
                           THEN "completed" ELSE "partial"
     IN orders' = update_order_status(orders, counter_order.id, counter_status, new_filled)
  /\ match' = [match EXCEPT ![p].k = @ + 1,
                            ![p].pc = IF match[p].k < Len(match[p].fills)
                                      THEN "seller" ELSE "finish"]
  /\ UNCHANGED <<wallets, trades, last, tx, log, level, offerVars>>

\* update_order_status(new_order["id"], status, filled_amount); return trades
UpdateNewOrder(p) ==
  /\ match[p].pc = "finish"
  /\ LET new_order == match[p].new_order
         filled_amount == new_order.amount - match[p].remaining_amount
     IN orders' = update_order_status(orders, new_order.id,
                    NewOrderStatus(new_order.amount, filled_amount), filled_amount)
  /\ match' = [match EXCEPT ![p].pc = "done"]
  /\ UNCHANGED <<wallets, trades, last, tx, log, level, offerVars>>

\* The rows table orders can hold for an order: nothing filled and pending,
\* partly filled, or filled and completed.
Progress(amount) ==
  {[filled_amount |-> f,
    status |-> IF f = 0 THEN "pending" ELSE IF f < amount THEN "partial" ELSE "completed"] :
     f \in 0..amount}

\* The i-th order of the book was submitted by the i-th user in turn.
Owner(i) == IF i % 2 = 1 THEN "u1" ELSE "u2"

BookRows(i) ==
  UNION {{[NewOrder(i, Owner(i), order_type, amount, price)
             EXCEPT !.filled_amount = g.filled_amount, !.status = g.status] :
            g \in Progress(amount)} :
         order_type \in Sides, amount \in OrderAmounts, price \in Prices}

RECURSIVE BooksOf(_)
BooksOf(n) ==
  IF n = 0 THEN {<<>>}
  ELSE {Append(b, row) : b \in BooksOf(n - 1), row \in BookRows(n)}

\* One order request on a book of earlier orders; u1 has a wallet, u2 has none.
InitMatch ==
  /\ wallets = [id \in {"w1"} |-> UserWallet("u1", MaxBal)]
  /\ last = NoCall
  /\ tx = <<>>
  /\ log = <<>>
  /\ level = NoLevel
  /\ orders \in UNION {BooksOf(n) : n \in 0..MaxBook}
  /\ trades = <<>>
  /\ match = [p \in Submitters |-> IF p = "s1" THEN IdleMatch ELSE NoRequest]
  /\ offers = <<>>
  /\ acceptances = <<>>
  /\ stats = <<>>
  /\ accept = <<>>
  /\ opening = <<>>

NextMatch ==
  \E p \in Submitters :
    \/ CreateOrder(p)
    \/ FetchPending(p)
    \/ ReadSeller(p)
    \/ DebitSeller(p)
    \/ ReadBuyer(p)
    \/ CreditBuyer(p)
    \/ CreateTrade(p)
    \/ UpdateCounterOrder(p)
    \/ UpdateNewOrder(p)

SpecMatch == InitMatch /\ [][NextMatch]_vars

\* Two order requests at the same time, on an empty book.
InitMatchConc ==
  /\ wallets = [id \in {"w1"} |-> UserWallet("u1", MaxBal)]
  /\ last = NoCall
  /\ tx = <<>>
  /\ log = <<>>
  /\ level = NoLevel
  /\ orders = <<>>
  /\ trades = <<>>
  /\ match = [p \in Submitters |-> IdleMatch]
  /\ offers = <<>>
  /\ acceptances = <<>>
  /\ stats = <<>>
  /\ accept = <<>>
  /\ opening = <<>>

SpecMatchConc == InitMatchConc /\ [][NextMatch]_vars

\* One order request on a book of MaxResting sell orders that were submitted one
\* after another and found nothing to match: all pending, nothing filled, no trade.
SellRows(i) ==
  {NewOrder(i, Owner(i), "sell", amount, price) : amount \in OrderAmounts, price \in Prices}

RECURSIVE SellBooksOf(_)
SellBooksOf(n) ==
  IF n = 0 THEN {<<>>}
  ELSE {Append(b, row) : b \in SellBooksOf(n - 1), row \in SellRows(n)}

InitMatchDeep ==
  /\ wallets = [id \in {"w1"} |-> UserWallet("u1", MaxBal)]
  /\ last = NoCall
  /\ tx = <<>>
  /\ log = <<>>
  /\ level = NoLevel
  /\ orders \in SellBooksOf(MaxResting)
  /\ trades = <<>>
  /\ match = [p \in Submitters |-> IF p = "s1" THEN IdleMatch ELSE NoRequest]
  /\ offers = <<>>
  /\ acceptances = <<>>
  /\ stats = <<>>
  /\ accept = <<>>
  /\ opening = <<>>

SpecMatchDeep == InitMatchDeep /\ [][NextMatch]_vars

\* ------------------------------------------------------- offers and acceptance
\* POST /api/offers, POST /api/trades and DatabaseStorage.deactivate_offer, one
\* request at a time. Each user has one hot wallet for each of two currencies.
Currencies == {"BTC", "ETH"}
WalletMethod == "CryptoTrade wallet"
PaymentMethods == {WalletMethod, "Bank transfer"}
Rates == 1..MaxRate
OfferAmounts == 1..MaxOfferAmt
PatchedWallets == {"w1"}
None == "none"

\* CreateTradeRequest.amount is Optional[Decimal]: an amount or None (NotGiven).
\* "if trade_request.amount:" takes a given amount of 0 for no amount as well.
NotGiven == 0 - 1
RequestAmounts == Amounts \cup {NotGiven}
Truthy(amount) == amount # NotGiven /\ amount # 0

HotWallet(user_id, cryptocurrency, b) ==
  [balance |-> b, reserved_balance |-> 0, user_id |-> user_id,
   cryptocurrency |-> cryptocurrency, wallet_type |-> "hot"]

get_hot_wallet_any_currency(ws, user_id, cryptocurrency) ==
  LET found == {id \in DOMAIN ws : ws[id].user_id = user_id /\ ws[id].wallet_type = "hot"}
  IN IF found = {} THEN {Missing} ELSE found

\* get_hot_wallet_for_currency: ... WHERE user_id = $1 AND cryptocurrency = $2
\* AND wallet_type = 'hot' LIMIT 1: any one of the matching rows, or none (Missing).
get_hot_wallet_for_currency(ws, user_id, cryptocurrency) ==
  LET found == {id \in DOMAIN ws : /\ ws[id].user_id = user_id
                                   /\ ws[id].cryptocurrency = cryptocurrency
                                   /\ ws[id].wallet_type = "hot"}
  IN IF found = {} THEN {Missing} ELSE found

deactivate_and_release(ofs, ws, offer_id, release_reservation) ==
  IF offer_id \notin DOMAIN ofs THEN [ok |-> TRUE, offers |-> ofs, writes |-> <<>>]
  ELSE LET offer == ofs[offer_id]
           res == release_wallet_funds(ws, offer.reserved_wallet_id, offer.reserved_amount)
       IN [ok |-> res.ok, offers |-> [ofs EXCEPT ![offer_id].is_active = FALSE],
           writes |-> res.writes]

deactivate_clamped(ofs, ws, offer_id, release_reservation) ==
  IF offer_id \notin DOMAIN ofs THEN [ok |-> TRUE, offers |-> ofs, writes |-> <<>>]
  ELSE LET offer == ofs[offer_id]
           inactive == [ofs EXCEPT ![offer_id].is_active = FALSE]
       IN IF release_reservation /\ offer.reserved_wallet_id \in DOMAIN ws
          THEN [ok |-> TRUE, offers |-> inactive,
                writes |-> release_clamped(ws, offer.reserved_wallet_id,
                                           offer.reserved_amount).writes]
          ELSE [ok |-> TRUE, offers |-> inactive, writes |-> <<>>]

deactivate_release_all(ofs, ws, offer_id, release_reservation) ==
  IF offer_id \notin DOMAIN ofs THEN [ok |-> TRUE, offers |-> ofs, writes |-> <<>>]
  ELSE LET offer == ofs[offer_id]
           inactive == [ofs EXCEPT ![offer_id].is_active = FALSE]
       IN IF release_reservation /\ offer.reserved_wallet_id \in DOMAIN ws
          THEN [ok |-> TRUE, offers |-> inactive,
                writes |-> <<Update(offer.reserved_wallet_id, [reserved_balance |-> 0])>>]
          ELSE [ok |-> TRUE, offers |-> inactive, writes |-> <<>>]

\* DatabaseStorage.deactivate_offer: the result, the offers and the wallet UPDATEs.
deactivate_offer(ofs, ws, offer_id, release_reservation) ==
  IF offer_id \notin DOMAIN ofs THEN [ok |-> TRUE, offers |-> ofs, writes |-> <<>>]
  ELSE LET offer == ofs[offer_id]
           inactive == [ofs EXCEPT ![offer_id].is_active = FALSE]
       IN IF release_reservation /\ offer.reserved_wallet_id # None
                                 /\ offer.reserved_amount > 0
          THEN IF offer.reserved_wallet_id \notin DOMAIN ws
               THEN [ok |-> FALSE, offers |-> inactive, writes |-> <<>>]
               ELSE IF ws[offer.reserved_wallet_id].reserved_balance < offer.reserved_amount
               THEN [ok |-> FALSE, offers |-> inactive, writes |-> <<>>]
               ELSE LET res == release_wallet_funds(ws, offer.reserved_wallet_id,
                                                    offer.reserved_amount)
                    IN [ok |-> res.ok, offers |-> inactive, writes |-> res.writes]
          ELSE [ok |-> TRUE, offers |-> inactive, writes |-> <<>>]

\* What a request leaves in last: the call and how it ended.
Request(op, args, ok, outcome) == [op |-> op, args |-> args, ok |-> ok, outcome |-> outcome]

\* The request ends with an HTTPException before anything was written.
Rejected(op, args) ==
  /\ last' = Request(op, args, FALSE, "rejected")
  /\ UNCHANGED <<wallets, offers, acceptances, trades, stats>>

\* POST /api/offers (the exchange rates of the model are positive)
CreateOffer ==
  \E user_id \in Users, base \in Currencies, quote \in Currencies, amount \in OfferAmounts,
     exchange_rate \in Rates, payment_method \in PaymentMethods :
    LET args == [user_id |-> user_id]
        offer == [seller_id |-> user_id, base_cryptocurrency |-> base,
                  quote_cryptocurrency |-> quote, amount |-> amount,
                  exchange_rate |-> exchange_rate, payment_method |-> payment_method,
                  reserved_wallet_id |-> None, reserved_amount |-> 0, is_active |-> TRUE]
    IN /\ Len(offers) < MaxOffers
       /\ UNCHANGED <<tx, log, level, orders, match, accept, opening>>
       /\ IF base = quote THEN Rejected("create_offer", args)
          ELSE IF payment_method = WalletMethod
          THEN \E hot_wallet \in get_hot_wallet_for_currency(wallets, user_id, base) :
                 IF hot_wallet = Missing THEN Rejected("create_offer", args)
                 ELSE LET available == wallets[hot_wallet].balance
                                       - wallets[hot_wallet].reserved_balance
                          res == reserve_wallet_funds(wallets, hot_wallet, amount)
                      IN IF available < amount \/ ~res.ok
                         THEN Rejected("create_offer", args)
                         ELSE /\ wallets' = ApplyWrites(wallets, res.writes)
                              /\ offers' = Append(offers,
                                             [offer EXCEPT !.reserved_wallet_id = hot_wallet,
                                                           !.reserved_amount = amount])
                              /\ last' = Request("create_offer", args, TRUE, "created")
                              /\ UNCHANGED <<acceptances, trades, stats>>
          ELSE /\ offers' = Append(offers, offer)
               /\ last' = Request("create_offer", args, TRUE, "created")
               /\ UNCHANGED <<wallets, acceptances, trades, stats>>

\* POST /api/offers when the INSERT of db.create_offer raises (the store is away
\* or refuses the row): the route has no handler around it, the request ends
\* with the exception and what it wrote before stays.
CreateOfferStoreFails ==
  \E user_id \in Users, base \in Currencies, quote \in Currencies, amount \in OfferAmounts,
     payment_method \in PaymentMethods :
    LET args == [user_id |-> user_id]
    IN /\ Len(offers) < MaxOffers
       /\ UNCHANGED <<tx, log, level, orders, match, accept, opening>>
       /\ IF base = quote THEN Rejected("create_offer", args)
          ELSE IF payment_method = WalletMethod
          THEN \E hot_wallet \in get_hot_wallet_for_currency(wallets, user_id, base) :
                 IF hot_wallet = Missing THEN Rejected("create_offer", args)
                 ELSE LET available == wallets[hot_wallet].balance
                                       - wallets[hot_wallet].reserved_balance
                          res == reserve_wallet_funds(wallets, hot_wallet, amount)
                      IN IF available < amount \/ ~res.ok
                         THEN Rejected("create_offer", args)
                         ELSE /\ wallets' = ApplyWrites(wallets, res.writes)
                              /\ last' = Request("create_offer", args, FALSE, "store failed")
                              /\ UNCHANGED <<offers, acceptances, trades, stats>>
          ELSE /\ last' = Request("create_offer", args, FALSE, "store failed")
               /\ UNCHANGED <<wallets, offers, acceptances, trades, stats>>

accept_unchecked(ofs, acc, offer_id, buyer_id, amount, payment_method) ==
  offer_id \in DOMAIN ofs /\ buyer_id # ofs[offer_id].seller_id

accept_inactive_too(ofs, acc, offer_id, buyer_id, amount, payment_method) ==
  /\ offer_id \in DOMAIN ofs
  /\ Truthy(amount) => amount = ofs[offer_id].amount
  /\ buyer_id # ofs[offer_id].seller_id
  /\ payment_method = WalletMethod
  /\ ~ \E i \in DOMAIN acc : acc[i] = <<offer_id, buyer_id>>
  /\ ofs[offer_id].reserved_wallet_id # None
  /\ ofs[offer_id].reserved_amount # 0

\* create_trade up to the wallet lookups: the offer is there and active, the
\* amount is the offer's (or not given, or 0), the buyer is not the seller, the
\* payment method is the wallet, the buyer has not accepted the offer before, and
\* the offer has a reservation.
accept_checks(ofs, acc, offer_id, buyer_id, amount, payment_method) ==
  /\ offer_id \in DOMAIN ofs
  /\ ofs[offer_id].is_active
  /\ Truthy(amount) => amount = ofs[offer_id].amount
  /\ buyer_id # ofs[offer_id].seller_id
  /\ payment_method = WalletMethod
  /\ ~ \E i \in DOMAIN acc : acc[i] = <<offer_id, buyer_id>>
  /\ ofs[offer_id].reserved_wallet_id # None
  /\ ofs[offer_id].reserved_amount # 0

\* create_trade: the accept of offer_id by buyer_id, for amount (or NotGiven).
accept_offer(buyer_id, offer_id, amount, payment_method) ==
    LET args == [buyer_id |-> buyer_id, offer_id |-> offer_id]
    IN /\ UNCHANGED <<tx, log, level, orders, match, accept, opening>>
       /\ IF ~accept_checks(offers, acceptances, offer_id, buyer_id, amount, payment_method)
          THEN Rejected("accept", args)
          ELSE LET offer == offers[offer_id]
                   base_amount == IF Truthy(amount) THEN amount ELSE offer.amount
                   quote_amount == base_amount * offer.exchange_rate
                   seller_base == offer.reserved_wallet_id
               IN \E buyer_base \in get_hot_wallet_for_currency(
                                      wallets, buyer_id, offer.base_cryptocurrency),
                     buyer_quote \in get_hot_wallet_for_currency(
                                       wallets, buyer_id, offer.quote_cryptocurrency),
                     seller_quote \in get_hot_wallet_for_currency(
                                        wallets, offer.seller_id, offer.quote_cryptocurrency) :
                    LET sargs == [buyer_id |-> buyer_id, offer_id |-> offer_id,
                                  seller_base |-> seller_base, buyer_base |-> buyer_base,
                                  buyer_quote |-> buyer_quote, seller_quote |-> seller_quote]
                    IN IF Missing \in {buyer_base, buyer_quote, seller_quote}
                       THEN Rejected("accept", args)
                       ELSE IF wallets[buyer_quote].balance
                               - wallets[buyer_quote].reserved_balance < quote_amount
                       THEN Rejected("accept", args)
                       ELSE LET reservation ==
                                  reserve_wallet_funds(wallets, buyer_quote, quote_amount)
                                reserved == ApplyWrites(wallets, reservation.writes)
                                settlement ==
                                  execute_dual_settlement(reserved, seller_base, buyer_base,
                                    seller_quote, buyer_quote, base_amount, quote_amount)
                                settled == ApplyWrites(reserved, settlement.writes)
                                \* if not success: release, raise; except HTTPException:
                                \* buyer_quote_reserved is still True: release, raise
                                released == ApplyWrites(settled,
                                  release_wallet_funds(settled, buyer_quote, quote_amount).writes)
                                handled == ApplyWrites(released,
                                  release_wallet_funds(released, buyer_quote, quote_amount).writes)
                                deactivated == deactivate_offer(offers, settled, offer_id, FALSE)
                                trade == [buyer_id |-> buyer_id, seller_id |-> offer.seller_id,
                                          offer_id |-> offer_id, amount |-> base_amount,
                                          exchange_rate |-> offer.exchange_rate,
                                          quote_amount |-> quote_amount,
                                          status |-> "completed"]
                            IN IF ~reservation.ok THEN Rejected("accept", args)
                               ELSE IF ~settlement.ok
                               THEN /\ wallets' = handled
                                    /\ last' = Request("accept", sargs, FALSE, "settlement failed")
                                    /\ UNCHANGED <<offers, acceptances, trades, stats>>
                               ELSE /\ wallets' = ApplyWrites(settled, deactivated.writes)
                                    /\ offers' = deactivated.offers
                                    /\ acceptances' = Append(acceptances, <<offer_id, buyer_id>>)
                                    /\ trades' = Append(trades, trade)
                                    /\ stats' = [stats EXCEPT ![buyer_id] = @ + 1,
                                                              ![offer.seller_id] = @ + 1]
                                    /\ last' = Request("accept", sargs, TRUE, "settled")

\* POST /api/trades: accept an offer.
AcceptOffer ==
  \E buyer_id \in Users, offer_id \in 1..MaxOffers, amount \in RequestAmounts,
     payment_method \in PaymentMethods :
    accept_offer(buyer_id, offer_id, amount, payment_method)

\* DatabaseStorage.deactivate_offer
DeactivateOffer ==
  \E offer_id \in 1..MaxOffers, release_reservation \in BOOLEAN :
    LET res == deactivate_offer(offers, wallets, offer_id, release_reservation)
    IN /\ wallets' = ApplyWrites(wallets, res.writes)
       /\ offers' = res.offers
       /\ last' = Request("deactivate",
                    [offer_id |-> offer_id, release_reservation |-> release_reservation],
                    res.ok, "returned")
       /\ UNCHANGED <<acceptances, trades, stats, tx, log, level, orders, match, accept, opening>>

\* The hot wallets of the two users: w1, w4 are u1's, w2, w3 are u2's.
InitOffer ==
  /\ wallets = [id \in QuadIds |->
                  CASE id = "w1" -> HotWallet("u1", "BTC", MaxBal)
                    [] id = "w2" -> HotWallet("u2", "BTC", MaxBal)
                    [] id = "w3" -> HotWallet("u2", "ETH", MaxBal)
                    [] id = "w4" -> HotWallet("u1", "ETH", MaxBal)]
  /\ last = NoCall
  /\ tx = <<>>
  /\ log = <<>>
  /\ level = NoLevel
  /\ orders = <<>>
  /\ trades = <<>>
  /\ match = <<>>
  /\ offers = <<>>
  /\ acceptances = <<>>
  /\ stats = [u \in Users |-> 0]
  /\ accept = <<>>
  /\ opening = <<>>

\* PATCH /api/wallets/{wallet_id}/balance of a wallet that exists.
PatchWalletBalance ==
  \E wallet_id \in PatchedWallets, new_balance \in Balances :
    /\ wallets' = ApplyWrites(wallets,
                     update_wallet_balance(wallets, wallet_id, new_balance).writes)
    /\ last' = Request("update", [wallet_id |-> wallet_id], TRUE, "updated")
    /\ UNCHANGED <<offers, acceptances, trades, stats, tx, log, level, orders, match, accept, opening>>

NextOffer == CreateOffer \/ AcceptOffer \/ DeactivateOffer \/ PatchWalletBalance

SpecOffer == InitOffer /\ [][NextOffer]_vars

\* The same requests when one of the four wallets may never have been created.
InitOfferFew ==
  /\ \E absent \in QuadIds \cup {Missing} :
       wallets = [id \in QuadIds \ {absent} |->
                    CASE id = "w1" -> HotWallet("u1", "BTC", MaxBal)
                      [] id = "w2" -> HotWallet("u2", "BTC", MaxBal)
                      [] id = "w3" -> HotWallet("u2", "ETH", MaxBal)
                      [] id = "w4" -> HotWallet("u1", "ETH", MaxBal)]
  /\ last = NoCall
  /\ tx = <<>>
  /\ log = <<>>
  /\ level = NoLevel
  /\ orders = <<>>
  /\ trades = <<>>
  /\ match = <<>>
  /\ offers = <<>>
  /\ acceptances = <<>>
  /\ stats = [u \in Users |-> 0]
  /\ accept = <<>>
  /\ opening = <<>>

SpecOfferFew == InitOfferFew /\ [][NextOffer]_vars

\* Offers created and deactivated on a store that may fail the INSERT of an offer.
NextOfferFault == CreateOffer \/ CreateOfferStoreFails \/ DeactivateOffer

SpecOfferFault == InitOffer /\ [][NextOfferFault]_vars

\* ------------------------------------- accept requests that run concurrently
\* create_trade is a coroutine: it gives way to other requests at every await,
\* and each store call it awaits runs on its own connection. A request below
\* carries no amount and names the wallet payment method.
Requests == {"r1", "r2"}
Arrived == [pc |-> "idle"]
Answered(req, status) ==
  [pc |-> "done", buyer_id |-> req.buyer_id, offer_id |-> req.offer_id, status |-> status]

\* db.get_offer and the checks made on its row before the next await
GetOffer(r) ==
  /\ accept[r].pc = "idle"
  /\ \E buyer_id \in Users, offer_id \in 1..MaxOffers :
       LET req == [buyer_id |-> buyer_id, offer_id |-> offer_id]
       IN accept' = [accept EXCEPT ![r] =
            IF offer_id \notin DOMAIN offers THEN Answered(req, 400)
            ELSE IF ~offers[offer_id].is_active THEN Answered(req, 400)
            ELSE IF buyer_id = offers[offer_id].seller_id THEN Answered(req, 400)
            ELSE [pc |-> "existing", buyer_id |-> buyer_id, offer_id |-> offer_id,
                  offer |-> offers[offer_id],
                  base_amount |-> offers[offer_id].amount,
                  quote_amount |-> offers[offer_id].amount * offers[offer_id].exchange_rate]]
  /\ UNCHANGED <<opening, wallets, last, tx, log, level, orders, trades, match,
                 offers, acceptances, stats>>

\* SELECT id FROM offer_acceptances, then the reservation check on the offer row read before
CheckExisting(r) ==
  /\ accept[r].pc = "existing"
  /\ LET req == accept[r]
     IN accept' = [accept EXCEPT ![r] =
          IF \E i \in DOMAIN acceptances : acceptances[i] = <<req.offer_id, req.buyer_id>>
          THEN Answered(req, 400)
          ELSE IF req.offer.reserved_wallet_id = None \/ req.offer.reserved_amount = 0
          THEN Answered(req, 400)
          ELSE [req EXCEPT !.pc = "wallets"]]
  /\ UNCHANGED <<opening, wallets, last, tx, log, level, orders, trades, match,
                 offers, acceptances, stats>>

\* the three get_hot_wallet_for_currency calls and the check of the buyer's available quote
LookupWallets(r) ==
  /\ accept[r].pc = "wallets"
  /\ LET req == accept[r]
     IN \E buyer_base \in get_hot_wallet_for_currency(
                            wallets, req.buyer_id, req.offer.base_cryptocurrency),
           buyer_quote \in get_hot_wallet_for_currency(
                             wallets, req.buyer_id, req.offer.quote_cryptocurrency),
           seller_quote \in get_hot_wallet_for_currency(
                              wallets, req.offer.seller_id, req.offer.quote_cryptocurrency) :
          accept' = [accept EXCEPT ![r] =
            IF Missing \in {buyer_base, buyer_quote, seller_quote} THEN Answered(req, 400)
            ELSE IF wallets[buyer_quote].balance - wallets[buyer_quote].reserved_balance
                      < req.quote_amount
            THEN Answered(req, 400)
            ELSE [pc |-> "reserve", buyer_id |-> req.buyer_id, offer_id |-> req.offer_id,
                  offer |-> req.offer, base_amount |-> req.base_amount,
                  quote_amount |-> req.quote_amount, buyer_base |-> buyer_base,
                  buyer_quote |-> buyer_quote, seller_quote |-> seller_quote]]
  /\ UNCHANGED <<opening, wallets, last, tx, log, level, orders, trades, match,
                 offers, acceptances, stats>>

\* db.reserve_wallet_funds on the buyer's quote wallet
ReserveQuote(r) ==
  /\ accept[r].pc = "reserve"
  /\ LET req == accept[r]
         res == reserve_wallet_funds(wallets, req.buyer_quote, req.quote_amount)
     IN /\ wallets' = ApplyWrites(wallets, res.writes)
        /\ accept' = [accept EXCEPT ![r] =
             IF res.ok THEN [req EXCEPT !.pc = "settle"] ELSE Answered(req, 400)]
  /\ UNCHANGED <<opening, last, tx, log, level, orders, trades, match, offers, acceptances, stats>>

\* db.execute_dual_settlement
Settle(r) ==
  /\ accept[r].pc = "settle"
  /\ LET req == accept[r]
         res == execute_dual_settlement(wallets, req.offer.reserved_wallet_id, req.buyer_base,
                  req.seller_quote, req.buyer_quote, req.base_amount, req.quote_amount)
     IN /\ wallets' = ApplyWrites(wallets, res.writes)
        /\ accept' = [accept EXCEPT ![r].pc = IF res.ok THEN "deactivate" ELSE "release"]
  /\ UNCHANGED <<opening, last, tx, log, level, orders, trades, match, offers, acceptances, stats>>

\* if not success: db.release_wallet_funds, then raise HTTPException
ReleaseAfterFailure(r) ==
  /\ accept[r].pc = "release"
  /\ LET req == accept[r]
     IN wallets' = ApplyWrites(wallets,
          release_wallet_funds(wallets, req.buyer_quote, req.quote_amount).writes)
  /\ accept' = [accept EXCEPT ![r].pc = "handler"]
  /\ UNCHANGED <<opening, last, tx, log, level, orders, trades, match, offers, acceptances, stats>>

\* except HTTPException: buyer_quote_reserved is still True, so release again, then re-raise
ReleaseInHandler(r) ==
  /\ accept[r].pc = "handler"
  /\ LET req == accept[r]
     IN /\ wallets' = ApplyWrites(wallets,
             release_wallet_funds(wallets, req.buyer_quote, req.quote_amount).writes)
        /\ accept' = [accept EXCEPT ![r] = Answered(req, 400)]
  /\ UNCHANGED <<opening, last, tx, log, level, orders, trades, match, offers, acceptances, stats>>

\* db.deactivate_offer(offer_id, release_reservation=False)
DeactivateAccepted(r) ==
  /\ accept[r].pc = "deactivate"
  /\ LET res == deactivate_offer(offers, wallets, accept[r].offer_id, FALSE)
     IN /\ offers' = res.offers
        /\ wallets' = ApplyWrites(wallets, res.writes)
  /\ accept' = [accept EXCEPT ![r].pc = "record"]
  /\ UNCHANGED <<opening, last, tx, log, level, orders, trades, match, acceptances, stats>>

\* INSERT INTO offer_acceptances: the row is stored
RecordAcceptance(r) ==
  /\ accept[r].pc = "record"
  /\ acceptances' = Append(acceptances, <<accept[r].offer_id, accept[r].buyer_id>>)
  /\ accept' = [accept EXCEPT ![r].pc = "trade"]
  /\ UNCHANGED <<opening, wallets, last, tx, log, level, orders, trades, match, offers, stats>>

\* INSERT INTO offer_acceptances when the table already has the row and refuses a
\* second one (the table's definition is not part of the sources): the exception
\* reaches "except Exception" with buyer_quote_reserved False, the answer is 500.
RecordAcceptanceRaises(r) ==
  /\ accept[r].pc = "record"
  /\ \E i \in DOMAIN acceptances : acceptances[i] = <<accept[r].offer_id, accept[r].buyer_id>>
  /\ accept' = [accept EXCEPT ![r] = Answered(accept[r], 500)]
  /\ UNCHANGED <<opening, wallets, last, tx, log, level, orders, trades, match,
                 offers, acceptances, stats>>

\* db.create_trade
CreateTradeRecord(r) ==
  /\ accept[r].pc = "trade"
  /\ LET req == accept[r]
     IN trades' = Append(trades,
          [buyer_id |-> req.buyer_id, seller_id |-> req.offer.seller_id,
           offer_id |-> req.offer_id, amount |-> req.base_amount,
           exchange_rate |-> req.offer.exchange_rate,
           quote_amount |-> req.quote_amount, status |-> "completed"])
  /\ accept' = [accept EXCEPT ![r].pc = "users"]
  /\ UNCHANGED <<opening, wallets, last, tx, log, level, orders, match, offers, acceptances, stats>>

\* db.get_user_by_id of the buyer and of the seller
ReadUsers(r) ==
  /\ accept[r].pc = "users"
  /\ LET req == accept[r]
     IN accept' = [accept EXCEPT ![r] =
          [pc |-> "buyer_stats", buyer_id |-> req.buyer_id, offer_id |-> req.offer_id,
           seller_id |-> req.offer.seller_id,
           buyer_trades |-> stats[req.buyer_id],
           seller_trades |-> stats[req.offer.seller_id]]]
  /\ UNCHANGED <<opening, wallets, last, tx, log, level, orders, trades, match,
                 offers, acceptances, stats>>

\* db.update_user_stats(buyer_id, buyer["completed_trades"] + 1, ...)
UpdateBuyerStats(r) ==
  /\ accept[r].pc = "buyer_stats"
  /\ stats' = [stats EXCEPT ![accept[r].buyer_id] = accept[r].buyer_trades + 1]
  /\ accept' = [accept EXCEPT ![r].pc = "seller_stats"]
  /\ UNCHANGED <<opening, wallets, last, tx, log, level, orders, trades, match, offers, acceptances>>

\* db.update_user_stats(seller_id, seller["completed_trades"] + 1, ...), then the answer
UpdateSellerStats(r) ==
  /\ accept[r].pc = "seller_stats"
  /\ stats' = [stats EXCEPT ![accept[r].seller_id] = accept[r].seller_trades + 1]
  /\ accept' = [accept EXCEPT ![r] = Answered(accept[r], 200)]
  /\ UNCHANGED <<opening, wallets, last, tx, log, level, orders, trades, match, offers, acceptances>>

\* The offer created by POST /api/offers of u1: BTC for ETH, one unit at rate 1,
\* paid through the wallets, reserved on u1's BTC hot wallet.
WalletOffer ==
  [seller_id |-> "u1", base_cryptocurrency |-> "BTC", quote_cryptocurrency |-> "ETH",
   amount |-> 1, exchange_rate |-> 1, payment_method |-> WalletMethod,
   reserved_wallet_id |-> "w1", reserved_amount |-> 1, is_active |-> TRUE]

\* u1 has created one offer or several, each reserved on the same wallet; two
\* accept requests arrive.
InitAccept ==
  /\ \E n \in 1..MaxOffers :
       /\ offers = [i \in 1..n |-> WalletOffer]
       /\ wallets = [id \in QuadIds |->
                       CASE id = "w1" -> [HotWallet("u1", "BTC", MaxBal)
                                            EXCEPT !.reserved_balance = n]
                         [] id = "w2" -> HotWallet("u2", "BTC", MaxBal)
                         [] id = "w3" -> HotWallet("u2", "ETH", MaxBal)
                         [] id = "w4" -> HotWallet("u1", "ETH", MaxBal)]
  /\ last = NoCall
  /\ tx = <<>>
  /\ log = <<>>
  /\ level = NoLevel
  /\ orders = <<>>
  /\ trades = <<>>
  /\ match = <<>>
  /\ acceptances = <<>>
  /\ stats = [u \in Users |-> 0]
  /\ accept = [r \in Requests |-> Arrived]
  /\ opening = <<>>

NextAccept ==
  \E r \in Requests :
    \/ GetOffer(r)
    \/ CheckExisting(r)
    \/ LookupWallets(r)
    \/ ReserveQuote(r)
    \/ Settle(r)
    \/ ReleaseAfterFailure(r)
    \/ ReleaseInHandler(r)
    \/ DeactivateAccepted(r)
    \/ RecordAcceptance(r)
    \/ RecordAcceptanceRaises(r)
    \/ CreateTradeRecord(r)
    \/ ReadUsers(r)
    \/ UpdateBuyerStats(r)
    \/ UpdateSellerStats(r)

SpecAccept == InitAccept /\ [][NextAccept]_vars

\* ------------------------------------------- wallet requests and auto-created wallets
\* POST /api/wallets running at the same time as each other and as one order
\* request whose fills create the buyer's wallet. Every store call runs on its
\* own connection; the sources hold no definition of table wallets.
Openers == {"o1", "o2"}
WalletTypes == {"hot", "cold"}
IdleOpening == [pc |-> "idle"]

\* SELECT id FROM wallets WHERE user_id = $1 AND cryptocurrency = $2
\* AND wallet_type = 'hot' LIMIT 1; row is not None.
has_hot_wallet_for_currency(ws, user_id, cryptocurrency) ==
  \E id \in DOMAIN ws : /\ ws[id].user_id = user_id
                        /\ ws[id].cryptocurrency = cryptocurrency
                        /\ ws[id].wallet_type = "hot"

\* INSERT INTO wallets (id, user_id, cryptocurrency, balance, wallet_type, address)
\* under a fresh uuid.
create_wallet(ws, wallet_id, wallet_data) ==
  [id \in DOMAIN ws \cup {wallet_id} |->
     IF id = wallet_id
     THEN [balance |-> wallet_data.balance, reserved_balance |-> 0,
           user_id |-> wallet_data.user_id,
           cryptocurrency |-> wallet_data.cryptocurrency,
           wallet_type |-> wallet_data.wallet_type]
     ELSE ws[id]]

\* create_wallet up to its await db.create_wallet: the hot-wallet validation,
\* which a cold wallet skips, and the 400 it raises.
CheckHotWallet(r) ==
  \E user_id \in Users, cryptocurrency \in Currencies, wallet_type \in WalletTypes :
    /\ opening[r].pc = "idle"
    /\ LET wallet_dict == [user_id |-> user_id, cryptocurrency |-> cryptocurrency,
                           wallet_type |-> wallet_type, balance |-> 0]
           has_hot == has_hot_wallet_for_currency(wallets, user_id, cryptocurrency)
       IN opening' = [opening EXCEPT ![r] =
                        IF wallet_type = "hot" /\ has_hot
                        THEN [pc |-> "raised", status_code |-> 400]
                        ELSE [pc |-> "insert", wallet_dict |-> wallet_dict]]
    /\ UNCHANGED <<wallets, last, tx, log, level, bookVars, offers, acceptances, stats, accept>>

\* wallet = await db.create_wallet(wallet_dict); return wallet
InsertWallet(r) ==
  /\ opening[r].pc = "insert"
  /\ QuadIds \ DOMAIN wallets # {}
  /\ LET wallet_id == CHOOSE id \in QuadIds \ DOMAIN wallets : TRUE
     IN wallets' = create_wallet(wallets, wallet_id, opening[r].wallet_dict)
  /\ opening' = [opening EXCEPT ![r].pc = "done"]
  /\ UNCHANGED <<last, tx, log, level, bookVars, offers, acceptances, stats, accept>>

\* Two wallet requests and one order request on a book of at most one earlier
\* order; u1 has a hot wallet, u2 has none.
InitWallet ==
  /\ wallets = [id \in {"w1"} |-> UserWallet("u1", MaxBal)]
  /\ last = NoCall
  /\ tx = <<>>
  /\ log = <<>>
  /\ level = NoLevel
  /\ orders \in UNION {BooksOf(n) : n \in 0..1}
  /\ trades = <<>>
  /\ match = [p \in Submitters |-> IF p = "s1" THEN IdleMatch ELSE NoRequest]
  /\ offers = <<>>
  /\ acceptances = <<>>
  /\ stats = <<>>
  /\ accept = <<>>
  /\ opening = [r \in Openers |-> IdleOpening]

NextWallet ==
  \/ NextMatch
  \/ \E r \in Openers :
       \/ CheckHotWallet(r)
       \/ InsertWallet(r)

SpecWallet == InitWallet /\ [][NextWallet]_vars

\* ------------------------------------------------------------------ claims
Exists(ws, id) == id \in DOMAIN ws
Available(ws, id) == ws[id].balance - ws[id].reserved_balance

\* C1: in every reachable state every wallet satisfies
\* 0 <= reserved_balance <= balance.
C1_WalletInvariant ==
  \A id \in DOMAIN wallets :
    /\ 0 <= wallets[id].reserved_balance
    /\ wallets[id].reserved_balance <= wallets[id].balance

\* C2: reserve(w, a) returns success exactly when w exists and
\* a <= balance(w) - reserved(w); on success reserved(w) grows by a and nothing
\* else changes; on failure no wallet changes.
C2_ReserveContract ==
  last.op = "reserve" =>
    LET pre == last.pre
        w == last.w
    IN /\ last.ok <=> (Exists(pre, w) /\ last.a <= Available(pre, w))
       /\ last.ok => wallets = [pre EXCEPT ![w].reserved_balance = @ + last.a]
       /\ ~last.ok => wallets = pre

\* A reserve that succeeded on top of an earlier reservation, after one that was refused.
C2_Witness ==
  /\ last.op = "reserve" /\ last.ok /\ last.a > 0
  /\ last.pre[last.w].reserved_balance > 0
  /\ wallets[last.w].reserved_balance = wallets[last.w].balance

\* C3: release(w, a) returns success exactly when w exists and a <= reserved(w);
\* on success reserved(w) shrinks by a and nothing else changes; a release of
\* more than is reserved fails and changes no wallet (reserved is not clamped).
C3_ReleaseContract ==
  last.op = "release" =>
    LET pre == last.pre
        w == last.w
    IN /\ last.ok <=> (Exists(pre, w) /\ last.a <= pre[w].reserved_balance)
       /\ last.ok => wallets = [pre EXCEPT ![w].reserved_balance = @ - last.a]
       /\ ~last.ok => wallets = pre

\* A release of more than the (non-zero) reservation, refused.
C3_Witness ==
  /\ last.op = "release" /\ ~last.ok /\ Exists(last.pre, last.w)
  /\ last.pre[last.w].reserved_balance > 0
  /\ last.a > last.pre[last.w].reserved_balance

\* C4: transfer without release succeeds exactly when both wallets exist and
\* amount <= from.balance - from.reserved_balance; on success from.balance is
\* lower by amount, to.balance higher by amount and no reserved balance changes.
C4_TransferAvailable ==
  (last.op = "transfer" /\ ~last.release) =>
    LET pre == last.pre
        f == last.from
        t == last.to
    IN /\ last.ok <=> (Exists(pre, f) /\ Exists(pre, t) /\ last.a <= Available(pre, f))
       /\ last.ok => wallets = [pre EXCEPT ![f].balance = @ - last.a,
                                           ![t].balance = @ + last.a]

\* C5: transfer with release succeeds exactly when both wallets exist,
\* amount <= from.reserved_balance and from.balance >= from.reserved_balance
\* afterwards; on success from.balance and from.reserved_balance are lower by
\* amount, to.balance is higher by amount and to.reserved_balance is unchanged.
C5_TransferReserved ==
  (last.op = "transfer" /\ last.release) =>
    LET pre == last.pre
        f == last.from
        t == last.to
    IN /\ last.ok <=> (/\ Exists(pre, f) /\ Exists(pre, t)
                       /\ last.a <= pre[f].reserved_balance
                       /\ pre[f].balance - last.a >= pre[f].reserved_balance - last.a)
       /\ last.ok => wallets = [pre EXCEPT ![f].balance = @ - last.a,
                                           ![f].reserved_balance = @ - last.a,
                                           ![t].balance = @ + last.a]

\* C6: a dual settlement succeeds exactly when the four wallets exist, the
\* seller's base reservation covers baseAmount, the buyer's quote reservation
\* covers quoteAmount and both wallets keep balance >= reserved; on success the
\* seller's base balance and reservation are lower by baseAmount, the buyer's
\* base balance higher by baseAmount, the buyer's quote balance and reservation
\* lower by quoteAmount, the seller's quote balance higher by quoteAmount, and
\* nothing else changes.
C6_DualSettlement ==
  last.op = "dual" =>
    LET pre == last.pre
        sb == last.seller_base
        bb == last.buyer_base
        bq == last.buyer_quote
        sq == last.seller_quote
    IN /\ last.ok <=> (/\ {sb, bb, bq, sq} \subseteq DOMAIN pre
                       /\ pre[sb].reserved_balance >= last.base
                       /\ pre[bq].reserved_balance >= last.quote
                       /\ pre[sb].balance - last.base >= pre[sb].reserved_balance - last.base
                       /\ pre[bq].balance - last.quote >= pre[bq].reserved_balance - last.quote)
       /\ last.ok => wallets = [pre EXCEPT ![sb].balance = @ - last.base,
                                           ![sb].reserved_balance = @ - last.base,
                                           ![bb].balance = @ + last.base,
                                           ![bq].balance = @ - last.quote,
                                           ![bq].reserved_balance = @ - last.quote,
                                           ![sq].balance = @ + last.quote]

\* C7: when transfer or dualSettlement returns failure, every wallet's balance
\* and reserved_balance are what they were before the call.
C7_FailureChangesNothing ==
  (last.op \in {"transfer", "dual"} /\ ~last.ok) => wallets = last.pre

\* A dual settlement on four distinct existing wallets refused for the buyer's
\* reservation after the seller's passed the check.
C7_Witness ==
  /\ last.op = "dual" /\ ~last.ok
  /\ <<last.seller_base, last.buyer_base, last.buyer_quote, last.seller_quote>> = Canonical
  /\ last.pre[last.seller_base].reserved_balance >= last.base
  /\ last.pre[last.buyer_quote].reserved_balance < last.quote
  /\ last.pre[last.buyer_quote].reserved_balance > 0

\* The wallets after the given calls run one at a time, each alone.
RECURSIVE Replay(_, _)
Replay(ws, calls) ==
  IF calls = <<>> THEN ws
  ELSE Replay(ApplyWrites(ws, Run(ws, Head(calls)).writes), Tail(calls))

RECURSIVE SumBalances(_, _)
SumBalances(ws, ids) ==
  IF ids = {} THEN 0
  ELSE LET id == CHOOSE i \in ids : TRUE
       IN ws[id].balance + SumBalances(ws, ids \ {id})

LoggedCalls == [i \in 1..Len(log) |-> log[i].call]

\* C8: transfer and dualSettlement are atomic to observers: every state a reader
\* can see holds, for each call, all of its wallet updates or none of them, so it
\* is the outcome of whole calls and never shows a debit without its credit.
C8_AtomicToObservers ==
  /\ wallets = Replay(Funded, LoggedCalls)
  /\ SumBalances(wallets, DOMAIN wallets) = SumBalances(Funded, DOMAIN Funded)

\* A transfer has committed while a dual settlement on the same wallets holds
\* some of its row locks.
C8_Witness ==
  \E p \in Procs, q \in Procs :
    /\ tx[p].pc = "returned" /\ tx[p].ok /\ tx[p].call.op = "transfer"
    /\ tx[q].pc = "run" /\ tx[q].call.op = "dual" /\ tx[q].held # {}

Finished(p) == tx[p].pc \in {"returned", "raised"}
Orders == {o \in [1..Cardinality(Procs) -> Procs] : \A i, j \in DOMAIN o : o[i] = o[j] => i = j}

\* C9: once the concurrent calls have finished, each has returned a result, and
\* the wallets and the results are those of running the same calls one at a time
\* in some order.
C9_SerialEquivalent ==
  (\A p \in Procs : Finished(p)) =>
    \E o \in Orders :
      /\ wallets = Replay(Funded, [i \in DOMAIN o |-> tx[o[i]].call])
      /\ \A i \in DOMAIN o :
           /\ tx[o[i]].pc = "returned"
           /\ tx[o[i]].ok =
                Run(Replay(Funded, [j \in 1..(i - 1) |-> tx[o[j]].call]), tx[o[i]].call).ok

\* C10: for every price level match_order processes, whatever the resting
\* unfilled sizes and the incoming remainder, the fills given to the level's
\* resting orders sum exactly to fillAtLevel = min(remaining, total unfilled).
C10_FillsSumToLevelFill ==
  level.pc = "done" => SumSeq(level.trades) = level.fill_at_price

\* C11: in the pro-rata distribution no resting order receives more than its
\* unfilled amount (amount - filled_amount before the fill) and no fill is negative.
C11_NoOverfill ==
  level.pc = "done" =>
    \A i \in DOMAIN level.trades :
      /\ level.trades[i] >= 0
      /\ level.trades[i] <=
           level.orders[i].amount - (level.orders[i].filled_amount - level.trades[i])

\* A level where the cap acted: the residual left for the last order was larger
\* than its unfilled amount, and the order was filled completely.
C11_Witness ==
  /\ level.pc = "done"
  /\ SumSeq(level.trades) < level.fill_at_price
  /\ level.orders[Len(level.orders)].status = "completed"

StatusRank(status) ==
  CASE status = "pending" -> 0
    [] status = "partial" -> 1
    [] status = "completed" -> 2

\* C12: across every step, also of interleaved order requests, no order's
\* filled_amount decreases and no order's status moves backward in
\* pending -> partial -> completed.
C12_OrderMonotonic ==
  [][\A i \in DOMAIN orders :
       /\ orders'[i].filled_amount >= orders[i].filled_amount
       /\ StatusRank(orders'[i].status) >= StatusRank(orders[i].status)]_vars

\* The request whose match_order has returned, and its order.
Returned(p) == match[p].pc = "done"
CounterSide(new_order, o) == o.order_type # new_order.order_type
Crosses(new_order, o) ==
  IF new_order.order_type = "buy" THEN o.price <= new_order.price
  ELSE o.price >= new_order.price
BetterPrice(new_order, a, b) ==
  IF new_order.order_type = "buy" THEN a < b ELSE a > b

\* C16: match_order consumes the crossing price levels best price first (lowest
\* sells for an incoming buy, highest buys for an incoming sell): when it has
\* returned, no trade was made at a price while a pending counter order with
\* unfilled amount rests at a strictly better crossing price.
C16_BestLevelFirst ==
  \A p \in Submitters :
    Returned(p) =>
      \A t \in DOMAIN match[p].trades, i \in DOMAIN orders :
        ~ (/\ CounterSide(match[p].new_order, orders[i])
           /\ Crosses(match[p].new_order, orders[i])
           /\ orders[i].status = "pending"
           /\ Unfilled(orders[i]) > 0
           /\ BetterPrice(match[p].new_order, orders[i].price, match[p].trades[t].price))

C18_FinalStatus ==
  \A p \in Submitters :
    Returned(p) =>
      LET o == orders[match[p].new_order.id]
      IN /\ o.filled_amount = o.amount - match[p].remaining_amount
         /\ o.status = "completed" <=> o.filled_amount = o.amount
         /\ o.status = "partial" <=> (0 < o.filled_amount /\ o.filled_amount < o.amount)
         /\ o.status = "pending" <=> o.filled_amount = 0

\* An incoming order of two units that found one unit and ends partial.
C18_Witness ==
  \E p \in Submitters :
    /\ Returned(p)
    /\ orders[match[p].new_order.id].status = "partial"
    /\ Len(match[p].trades) = 1

\* The wallet the accept route finds for a user and a currency.
WalletOf(ws, user_id, cryptocurrency) ==
  CHOOSE id \in DOMAIN ws : ws[id].user_id = user_id /\ ws[id].cryptocurrency = cryptocurrency

Accepting == last'.op = "accept"

\* C13: when the dual settlement fails during an accept, after the buyer's quote
\* funds were reserved, the buyer's quote reservation is released exactly once:
\* the buyer quote wallet's reserved_balance is what it was before the accept,
\* also when the wallet carries other reservations; the seller's base wallet is
\* untouched, the offer stays active and the caller gets the failure.
C13_FailedSettlementReleasesOnce ==
  [][(Accepting /\ last'.outcome = "settlement failed") =>
       LET offer == offers[last'.args.offer_id]
           buyer_quote == WalletOf(wallets, last'.args.buyer_id, offer.quote_cryptocurrency)
       IN /\ wallets'[buyer_quote].reserved_balance = wallets[buyer_quote].reserved_balance
          /\ wallets'[offer.reserved_wallet_id] = wallets[offer.reserved_wallet_id]
          /\ offers'[last'.args.offer_id].is_active
          /\ ~last'.ok]_vars

\* What one dual settlement of the offer does to a wallet row: the seller's base
\* wallet gives the base amount out of its reservation, the buyer's base wallet
\* receives it, the buyer's quote wallet gives the quote amount (its reservation
\* for it taken and consumed), the seller's quote wallet receives it.
SettledRow(row, offer, buyer_id) ==
  LET base_amount == offer.amount
      quote_amount == offer.amount * offer.exchange_rate
  IN CASE row.user_id = offer.seller_id /\ row.cryptocurrency = offer.base_cryptocurrency ->
            [row EXCEPT !.balance = @ - base_amount, !.reserved_balance = @ - base_amount]
       [] row.user_id = buyer_id /\ row.cryptocurrency = offer.base_cryptocurrency ->
            [row EXCEPT !.balance = @ + base_amount]
       [] row.user_id = buyer_id /\ row.cryptocurrency = offer.quote_cryptocurrency ->
            [row EXCEPT !.balance = @ - quote_amount]
       [] row.user_id = offer.seller_id /\ row.cryptocurrency = offer.quote_cryptocurrency ->
            [row EXCEPT !.balance = @ + quote_amount]
       [] OTHER -> row

TradesOf(ts, offer_id) == {i \in DOMAIN ts : ts[i].offer_id = offer_id}

AcceptancesOf(acc, offer_id, buyer_id) == {i \in DOMAIN acc : acc[i] = <<offer_id, buyer_id>>}

\* C14: a successful accept changes the wallets exactly as one dual settlement
\* with base amount offer.amount and quote amount amount x exchange rate, each
\* reservation consumed once and released no second time; afterwards the offer
\* is inactive, one acceptance record (offer, buyer) exists, exactly one trade of
\* the offer is recorded and both parties' completed-trade counts are one higher.
C14_AcceptIsOneSettlement ==
  [][(Accepting /\ last'.ok) =>
       LET offer_id == last'.args.offer_id
           buyer_id == last'.args.buyer_id
           offer == offers[offer_id]
       IN /\ wallets' = [id \in DOMAIN wallets |-> SettledRow(wallets[id], offer, buyer_id)]
          /\ offers' = [offers EXCEPT ![offer_id].is_active = FALSE]
          /\ Cardinality(AcceptancesOf(acceptances', offer_id, buyer_id)) = 1
          /\ Len(acceptances') = Len(acceptances) + 1
          /\ Cardinality(TradesOf(trades', offer_id)) = 1
          /\ Len(trades') = Len(trades) + 1
          /\ \A i \in TradesOf(trades', offer_id) :
               /\ trades'[i].buyer_id = buyer_id
               /\ trades'[i].seller_id = offer.seller_id
               /\ trades'[i].amount = offer.amount
          /\ stats' = [u \in Users |->
                         IF u \in {buyer_id, offer.seller_id} THEN stats[u] + 1
                                                              ELSE stats[u]]]_vars

\* An offer at rate 2 was accepted while its seller's wallet carried the
\* reservation of a second offer.
C14_Witness ==
  /\ last.op = "accept"
  /\ last.ok
  /\ offers[last.args.offer_id].exchange_rate = 2
  /\ wallets[last.args.seller_base].reserved_balance > 0
  /\ Len(trades) = 1

\* C15: once an acceptance record exists for an (offer, buyer) pair, every later
\* accept of that offer by that buyer is rejected and changes no wallet, offer,
\* acceptance record or trade.
C15_NoSecondAcceptance ==
  [][(/\ Accepting
      /\ AcceptancesOf(acceptances, last'.args.offer_id, last'.args.buyer_id) # {}) =>
       /\ ~last'.ok
       /\ UNCHANGED <<wallets, offers, acceptances, trades>>]_vars

\* The buyer of an offer asked for it again, the seller's wallet still holding
\* the reservation of another offer, and was turned down.
C15_Witness ==
  /\ last.op = "accept"
  /\ ~last.ok
  /\ AcceptancesOf(acceptances, last.args.offer_id, last.args.buyer_id) # {}
  /\ wallets[offers[last.args.offer_id].reserved_wallet_id].reserved_balance
       >= offers[last.args.offer_id].reserved_amount
  /\ wallets[WalletOf(wallets, last.args.buyer_id,
                      offers[last.args.offer_id].quote_cryptocurrency)].balance
       >= offers[last.args.offer_id].amount * offers[last.args.offer_id].exchange_rate

Deactivating == last'.op = "deactivate" /\ last'.args.offer_id \in DOMAIN offers

C20_ReleasesOwnShare ==
  [][Deactivating =>
       LET offer_id == last'.args.offer_id
           offer == offers[offer_id]
           w == offer.reserved_wallet_id
       IN /\ (/\ last'.args.release_reservation
              /\ w \in DOMAIN wallets
              /\ wallets[w].reserved_balance >= offer.reserved_amount) =>
               /\ wallets' = [wallets EXCEPT ![w].reserved_balance = @ - offer.reserved_amount]
               /\ ~offers'[offer_id].is_active
               /\ last'.ok
          /\ ~last'.args.release_reservation =>
               /\ wallets' = wallets
               /\ ~offers'[offer_id].is_active]_vars

\* An offer was deactivated with release and its wallet still holds what the
\* other, active offer reserved on it.
C20_Witness ==
  /\ last.op = "deactivate"
  /\ last.args.release_reservation
  /\ last.ok
  /\ last.args.offer_id \in DOMAIN offers
  /\ \E other \in DOMAIN offers :
       /\ other # last.args.offer_id
       /\ offers[other].is_active
       /\ offers[other].reserved_wallet_id = offers[last.args.offer_id].reserved_wallet_id
       /\ offers[other].reserved_wallet_id \in DOMAIN wallets
       /\ wallets[offers[other].reserved_wallet_id].reserved_balance
            = offers[other].reserved_amount
       /\ offers[other].reserved_amount > 0

Creating == last'.op = "create_offer"

\* C22: creating an offer whose payment methods include the wallet method
\* succeeds only if the seller has a hot wallet for the base currency with
\* balance - reserved >= amount; on success that wallet's reserved_balance grows
\* by exactly the offer amount, its balance and every other wallet stay, and the
\* stored offer records that wallet and reserved_amount = amount; an offer
\* without the wallet method reserves nothing and records reserved_amount = 0.
C22_OfferReservation ==
  [][(Creating /\ last'.ok) =>
       /\ Len(offers') = Len(offers) + 1
       /\ SubSeq(offers', 1, Len(offers)) = offers
       /\ LET offer == offers'[Len(offers')]
              w == offer.reserved_wallet_id
          IN /\ offer.seller_id = last'.args.user_id
             /\ IF offer.payment_method = WalletMethod
                THEN /\ w \in DOMAIN wallets
                     /\ wallets[w].user_id = offer.seller_id
                     /\ wallets[w].cryptocurrency = offer.base_cryptocurrency
                     /\ wallets[w].wallet_type = "hot"
                     /\ wallets[w].balance - wallets[w].reserved_balance >= offer.amount
                     /\ wallets' = [wallets EXCEPT ![w].reserved_balance = @ + offer.amount]
                     /\ offer.reserved_amount = offer.amount
                ELSE /\ wallets' = wallets
                     /\ offer.reserved_amount = 0]_vars

\* A second offer with the wallet method was created on a wallet that already
\* carried the reservation of the first.
C22_Witness ==
  /\ last.op = "create_offer"
  /\ last.ok
  /\ Len(offers) = 2
  /\ offers[2].payment_method = WalletMethod
  /\ offers[1].reserved_wallet_id = offers[2].reserved_wallet_id
  /\ wallets[offers[2].reserved_wallet_id].reserved_balance
       = offers[1].reserved_amount + offers[2].reserved_amount

\* C23: when the creation of an offer fails at any step (wallet missing, not
\* enough available, reservation refused, or the offer not persisted after the
\* reservation was taken), no offer exists for it and every wallet's balance
\* and reserved_balance are what they were before the call.
C23_FailedCreationChangesNothing ==
  [][(Creating /\ ~last'.ok) => (offers' = offers /\ wallets' = wallets)]_vars

\* What the accept route must turn down: the buyer is the seller, the requested
\* amount is not the offer's, the payment method is not the wallet, the offer is
\* inactive or has no reservation, the buyer has no wallet for the base or the
\* quote currency, the seller has none for the quote currency, or the buyer's
\* available quote balance is below amount x exchange rate.
MustReject(buyer_id, offer_id, amount, payment_method) ==
  LET offer == offers[offer_id]
      HasWallet(user_id, cryptocurrency) ==
        \E id \in DOMAIN wallets : /\ wallets[id].user_id = user_id
                                   /\ wallets[id].cryptocurrency = cryptocurrency
      buyer_quote == WalletOf(wallets, buyer_id, offer.quote_cryptocurrency)
  IN \/ buyer_id = offer.seller_id
     \/ amount # NotGiven /\ amount # offer.amount
     \/ payment_method # WalletMethod
     \/ ~offer.is_active
     \/ offer.reserved_wallet_id = None
     \/ offer.reserved_amount = 0
     \/ ~HasWallet(buyer_id, offer.base_cryptocurrency)
     \/ ~HasWallet(buyer_id, offer.quote_cryptocurrency)
     \/ ~HasWallet(offer.seller_id, offer.quote_cryptocurrency)
     \/ wallets[buyer_quote].balance - wallets[buyer_quote].reserved_balance
          < offer.amount * offer.exchange_rate

\* C21: an accept request is rejected, with no change to any wallet, offer,
\* acceptance record or trade, whenever buyer = seller, the requested amount
\* differs from the offer amount, the payment method is not the wallet, the
\* offer is inactive or has no reservation, the buyer lacks a wallet for the
\* base or quote currency, the seller lacks a quote wallet, or the buyer's
\* available quote balance is below amount x exchange rate.
C21_InvalidAcceptRejected ==
  [][\A buyer_id \in Users, offer_id \in DOMAIN offers, amount \in RequestAmounts,
        payment_method \in PaymentMethods :
       (/\ Accepting
        /\ last'.args.buyer_id = buyer_id
        /\ last'.args.offer_id = offer_id
        /\ MustReject(buyer_id, offer_id, amount, payment_method)
        /\ accept_offer(buyer_id, offer_id, amount, payment_method)) =>
         /\ ~last'.ok
         /\ UNCHANGED <<wallets, offers, acceptances, trades>>]_vars

\* C24: every call of a ledger primitive, under any interleaving with other
\* calls, lock conflicts, deadlock aborts and serialization failures included,
\* ends by returning a success or failure value; no exception reaches its caller.
C24_PrimitivesNeverRaise == \A p \in Procs : tx[p].pc # "raised"

\* The fills of the request whose wallet updates and trade record are done
\* (-1 in the middle of a fill and for a request that is not made).
FillsDone(p) ==
  CASE match[p].pc \in {"idle", "fetch"} -> 0
    [] match[p].pc \in {"seller", "finish", "done"} -> match[p].k - 1
    [] match[p].pc = "counter" -> match[p].k
    [] OTHER -> 0 - 1

\* The balance a user holds in the traded currency (nothing without a wallet).
BalanceOf(ws, user_id) ==
  LET owned == {id \in DOMAIN ws : ws[id].user_id = user_id /\ ws[id].cryptocurrency = Crypto}
  IN SumBalances(ws, owned)

\* What the user held before the request: the wallets of InitMatch.
HeldBefore(user_id) == IF user_id = "u1" THEN MaxBal ELSE 0

RECURSIVE Traded(_, _, _, _)
Traded(p, user_id, side, n) ==
  IF n = 0 THEN 0
  ELSE LET fill == match[p].fills[n]
           party == IF side = "sell" THEN Seller(match[p].new_order, fill.counter)
                                     ELSE Buyer(match[p].new_order, fill.counter)
       IN Traded(p, user_id, side, n - 1) + (IF party.user_id = user_id THEN fill.amount ELSE 0)

\* C25: for every fill the engine executes, the seller's balance in the traded
\* currency goes down by exactly the fill amount and the buyer's goes up by
\* exactly the fill amount (a buyer wallet is created holding the amount when
\* absent), so the total balance of the currency over all wallets is unchanged,
\* and exactly one trade is recorded for the fill.
C25_FillMovesFunds ==
  \A p \in Submitters :
    FillsDone(p) >= 0 =>
      /\ \A user_id \in Users :
           BalanceOf(wallets, user_id) =
             HeldBefore(user_id) - Traded(p, user_id, "sell", FillsDone(p))
                                 + Traded(p, user_id, "buy", FillsDone(p))
      /\ SumBalances(wallets, DOMAIN wallets) = MaxBal
      /\ Len(match[p].trades) = FillsDone(p)

\* C26: the active flag of an offer is one-way: no operation makes an inactive
\* offer active again, and an inactive offer is never accepted (no settlement
\* runs on the wallets and no trade or acceptance record is written for it).
C26_InactiveIsFinal ==
  [][/\ Len(offers') >= Len(offers)
     /\ \A offer_id \in DOMAIN offers :
          ~offers[offer_id].is_active =>
            /\ ~offers'[offer_id].is_active
            /\ TradesOf(trades', offer_id) = TradesOf(trades, offer_id)
            /\ \A buyer_id \in Users :
                 AcceptancesOf(acceptances', offer_id, buyer_id)
                   = AcceptancesOf(acceptances, offer_id, buyer_id)
            /\ (Accepting /\ last'.args.offer_id = offer_id) =>
                 (~last'.ok /\ wallets' = wallets)]_vars

\* An accept of an offer that was deactivated while its reservation is still on
\* the seller's wallet was turned down.
C26_Witness ==
  /\ last.op = "accept"
  /\ ~last.ok
  /\ last.args.offer_id \in DOMAIN offers
  /\ ~offers[last.args.offer_id].is_active
  /\ AcceptancesOf(acceptances, last.args.offer_id, last.args.buyer_id) = {}
  /\ last.args.buyer_id # offers[last.args.offer_id].seller_id
  /\ offers[last.args.offer_id].reserved_wallet_id \in DOMAIN wallets
  /\ wallets[offers[last.args.offer_id].reserved_wallet_id].reserved_balance
       >= offers[last.args.offer_id].reserved_amount
  /\ wallets[offers[last.args.offer_id].reserved_wallet_id].balance
       >= offers[last.args.offer_id].reserved_amount
  /\ offers[last.args.offer_id].reserved_amount > 0
\* C27: starting from wallets with 0 <= reserved_balance <= balance, after every
\* call of a sequence of reserve, release, transfer and dual settlement calls
\* with strictly positive amounts and pairwise distinct wallet arguments, every
\* wallet still has 0 <= reserved_balance <= balance.
C27_LedgerKeepsReservedWithinBalance ==
  \A id \in DOMAIN wallets :
    /\ 0 <= wallets[id].reserved_balance
    /\ wallets[id].reserved_balance <= wallets[id].balance

\* A dual settlement went through and a wallet still carries a reservation
\* that uses up its whole balance.
C27_Witness ==
  /\ last.op = "dual" /\ last.ok
  /\ \E id \in DOMAIN wallets :
       wallets[id].reserved_balance > 0
       /\ wallets[id].reserved_balance = wallets[id].balance

\* C28: under any interleaving of accept requests on the same offer, from the
\* same buyer or from different buyers, at most one accept succeeds: per offer
\* at most one dual settlement executes, and at most one acceptance record and
\* one trade exist, also when the seller's wallet carries the reservations of
\* several offers.
SettledFor(offer_id) ==
  {r \in Requests :
     /\ accept[r].pc \in {"deactivate", "record", "trade", "users", "buyer_stats",
                          "seller_stats", "done"}
     /\ accept[r].offer_id = offer_id
     /\ accept[r].pc = "done" => accept[r].status \in {200, 500}}

C28_AtMostOneAcceptPerOffer ==
  \A offer_id \in DOMAIN offers :
    /\ Cardinality(SettledFor(offer_id)) <= 1
    /\ Cardinality({i \in DOMAIN acceptances : acceptances[i][1] = offer_id}) <= 1
    /\ Cardinality(TradesOf(trades, offer_id)) <= 1

\* The sum of the amounts of the trades that name the order as buy or sell order.
RECURSIVE TradedAgainst(_, _, _)
TradedAgainst(ts, order_id, n) ==
  IF n = 0 THEN 0
  ELSE TradedAgainst(ts, order_id, n - 1)
       + (IF order_id \in {ts[n].buy_order_id, ts[n].sell_order_id} THEN ts[n].amount ELSE 0)

\* C29: in every reachable state, also under concurrent match_order calls that
\* read overlapping resting orders, every order has 0 <= filled_amount <= amount
\* and the trades that reference it sum to no more than its amount.
C29_NoOrderOverfilled ==
  \A id \in DOMAIN orders :
    /\ 0 <= orders[id].filled_amount
    /\ orders[id].filled_amount <= orders[id].amount
    /\ TradedAgainst(trades, id, Len(trades)) <= orders[id].amount

RECURSIVE SumAmounts(_)
SumAmounts(ts) == IF ts = <<>> THEN 0 ELSE Head(ts).amount + SumAmounts(Tail(ts))

\* C30: after a match_order call that ran alone has returned, every order's
\* filled_amount equals the sum of the amounts of the trades that reference it,
\* and the incoming order's recorded filled_amount equals the sum of the amounts
\* of the trades the call returned.
C30_FilledEqualsTrades ==
  \A p \in Submitters :
    Returned(p) =>
      /\ \A id \in DOMAIN orders :
           orders[id].filled_amount = TradedAgainst(trades, id, Len(trades))
      /\ orders[match[p].new_order.id].filled_amount = SumAmounts(match[p].trades)

\* What the trades say a user received less what they say the user gave.
RECURSIVE NetTraded(_, _, _)
NetTraded(ts, user_id, n) ==
  IF n = 0 THEN 0
  ELSE NetTraded(ts, user_id, n - 1)
       + (IF ts[n].buyer_id = user_id THEN ts[n].amount ELSE 0)
       - (IF ts[n].seller_id = user_id THEN ts[n].amount ELSE 0)

\* The committed rows show a seller's debit of a fill whose buyer is not yet credited.
DebitedOnly(p) ==
  /\ match[p].pc = "buyer"
  /\ match[p].wallet.found
  /\ Fill(p).amount > 0

\* C31: a fill's wallet effect is atomic with respect to concurrent operations:
\* no committed state shows the seller debited without the buyer credited, and
\* when fills update the same wallet concurrently the final balance reflects
\* every one of them (u1's wallet ends at what it held plus what u1's trades
\* brought and less what they took).
C31_FillIsAtomic ==
  /\ \A p \in Submitters : ~DebitedOnly(p)
  /\ (\A p \in Submitters : Returned(p)) =>
       wallets["w1"].balance = MaxBal + NetTraded(trades, "u1", Len(trades))

\* Two transfers between the same two wallets in opposite directions are running.
Opposite(p, q) ==
  /\ p # q
  /\ tx[p].pc = "run" /\ tx[p].call.op = "transfer"
  /\ tx[q].pc = "run" /\ tx[q].call.op = "transfer"
  /\ tx[p].call.from = tx[q].call.to
  /\ tx[p].call.to = tx[q].call.from

\* Each of the two waits for a row the other has locked.
LockCycle(p, q) ==
  /\ Waiting(p) /\ NextRow(p) \in tx[q].held
  /\ Waiting(q) /\ NextRow(q) \in tx[p].held

\* C32: the wallets of a call are locked in one canonical order, so two
\* concurrent transfers in opposite directions between the same two wallets
\* never wait for each other, and under fair scheduling both calls return.
C32_OppositeTransfersReturn ==
  \A p \in Procs, q \in Procs :
    /\ [](Opposite(p, q) => ~LockCycle(p, q))
    /\ [](Opposite(p, q) => <>(tx[p].pc = "returned" /\ tx[q].pc = "returned"))

\* The sum of reserved_amount over the first n offers that are active and
\* reserved on the wallet.
RECURSIVE ReservedFor(_, _, _)
ReservedFor(ofs, wallet_id, n) ==
  IF n = 0 THEN 0
  ELSE ReservedFor(ofs, wallet_id, n - 1)
       + (IF ofs[n].is_active /\ ofs[n].reserved_wallet_id = wallet_id
          THEN ofs[n].reserved_amount ELSE 0)

ReservationsMatch(ws, ofs) ==
  \A id \in DOMAIN ws : ws[id].reserved_balance = ReservedFor(ofs, id, Len(ofs))

\* C33: in every state with no accept request in flight, after any sequence of
\* offer creations, accepts (successful or failed) and deactivations, every
\* wallet's reserved_balance equals the sum of reserved_amount over the active
\* offers whose reserved wallet it is. Stated step by step: an operation that
\* starts where the equation holds ends where it holds (a deactivation asked
\* not to release, on its own, is left aside).
C33_ReservedMatchesActiveOffers ==
  [][(/\ ReservationsMatch(wallets, offers)
      /\ ~(last'.op = "deactivate" /\ ~last'.args.release_reservation)) =>
       ReservationsMatch(wallets', offers')]_vars

\* C34: an offer's reservation is released at most once: deactivate(offer,
\* release = true) of an offer that was just deactivated with release, or that
\* was just accepted and its reservation consumed by the settlement, changes no
\* wallet's reserved_balance.
C34_ReleasedAtMostOnce ==
  [][(/\ Deactivating
      /\ last'.args.release_reservation
      /\ last.op \in {"deactivate", "accept"}
      /\ last.ok
      /\ last.args.offer_id = last'.args.offer_id
      /\ last.op = "deactivate" => last.args.release_reservation) =>
       \A id \in DOMAIN wallets :
         wallets'[id].reserved_balance = wallets[id].reserved_balance]_vars

\* C35: a successful transfer or dual settlement conserves funds, whatever its
\* wallet arguments, coinciding ones included (from = to, or two of the four
\* wallets of a dual settlement being the same): the sum of the balances over
\* all wallets is the same before and after the call.
C35_SettlementConservesFunds ==
  (last.op \in {"transfer", "dual"} /\ last.ok) =>
    SumBalances(wallets, DOMAIN wallets) = SumBalances(last.pre, DOMAIN last.pre)

\* C36: for every amount argument, zero and negative ones included, reserve
\* never lowers a wallet's reserved_balance, release never raises it, and
\* transfer never lowers the destination's balance or raises the source's.
C36_AmountSignRespected ==
  [][/\ last'.op = "reserve" =>
          \A id \in DOMAIN wallets :
            wallets'[id].reserved_balance >= wallets[id].reserved_balance
     /\ last'.op = "release" =>
          \A id \in DOMAIN wallets :
            wallets'[id].reserved_balance <= wallets[id].reserved_balance
     /\ last'.op = "transfer" =>
          /\ last'.to \in DOMAIN wallets =>
               wallets'[last'.to].balance >= wallets[last'.to].balance
          /\ last'.from \in DOMAIN wallets =>
               wallets'[last'.from].balance <= wallets[last'.from].balance]_vars

\* The request has fetched and sorted its counter orders and nothing was written since.
JustFetched(p) == match[p].pc \in {"seller", "finish"} /\ match[p].k = 1

\* The price levels the request's match_order works through.
LevelsOf(p) ==
  LET new_order == match[p].new_order
      counter_type == IF new_order.order_type = "buy" THEN "sell" ELSE "buy"
  IN group_by_price(SortMatchable(Matchable(new_order, get_pending_orders(orders, counter_type)),
                                  new_order.order_type))

\* C37: within one price level the resting orders are visited in time priority,
\* earliest created_at first, for incoming buys and incoming sells alike: the
\* fills of a level are executed in that order, and the last order of the
\* level, which takes the rounding residual, is the most recently created one.
C37_TimePriorityWithinLevel ==
  \A p \in Submitters :
    /\ \A i, j \in DOMAIN match[p].fills :
         (i < j /\ match[p].fills[i].price = match[p].fills[j].price) =>
           match[p].fills[i].counter.created_at < match[p].fills[j].counter.created_at
    /\ JustFetched(p) =>
         \A l \in DOMAIN LevelsOf(p) :
           LET resting == LevelsOf(p)[l].orders
           IN \A i, j \in DOMAIN resting :
                i < j => resting[i].created_at < resting[j].created_at

\* An incoming sell was matched with two buy orders of one price level.
C37_Witness ==
  \E p \in Submitters :
    /\ JustFetched(p)
    /\ match[p].new_order.order_type = "sell"
    /\ Len(match[p].fills) = 2
    /\ match[p].fills[1].price = match[p].fills[2].price

\* C38: a resting order that was only partly filled stays eligible: when a later
\* incoming order of the opposite side crosses a resting order with status
\* partial and unfilled amount > 0, that order is among the orders of its price
\* level that the distribution works on.
C38_PartialStaysEligible ==
  \A p \in Submitters :
    JustFetched(p) =>
      \A id \in DOMAIN orders :
        (/\ CounterSide(match[p].new_order, orders[id])
         /\ Crosses(match[p].new_order, orders[id])
         /\ orders[id].status = "partial"
         /\ Unfilled(orders[id]) > 0) =>
          \E l \in DOMAIN LevelsOf(p) :
            \E k \in DOMAIN LevelsOf(p)[l].orders : LevelsOf(p)[l].orders[k].id = id

\* C39: each user has at most one hot wallet per currency, under any
\* interleaving of wallet-creation requests and of the wallets the matching
\* engine creates for buyers.
HotWalletsOf(user_id, cryptocurrency) ==
  {id \in DOMAIN wallets : /\ wallets[id].user_id = user_id
                           /\ wallets[id].cryptocurrency = cryptocurrency
                           /\ wallets[id].wallet_type = "hot"}
C39_OneHotWalletPerCurrency ==
  \A user_id \in Users, cryptocurrency \in Currencies :
    Cardinality(HotWalletsOf(user_id, cryptocurrency)) <= 1

\* C40: no trade has the same user as buyer and seller: an incoming order is
\* never filled against a resting order owned by the same user.
C40_NoSelfTrade ==
  \A t \in DOMAIN trades : trades[t].buyer_id # trades[t].seller_id

====
